---- MODULE Spec2Model ----
(***************************************************************************)
(* Extension lifecycle of ai-factory: the marker codec of                  *)
(* core/injections.ts, and the install / update / remove commands of       *)
(* cli/commands/extension.ts and cli/commands/update.ts.                   *)
(*                                                                         *)
(* Text is a sequence of tokens.  A token is a tuple of strings: a newline,*)
(* a blank, a letter, a line of three dashes, or a whole marker sentinel   *)
(* "<!-- aif-ext:NAME:SKILL:POSITION:start|end -->".  Extension names,     *)
(* skill names and positions hold no ':' here, so a sentinel is determined *)
(* by its three fields and two sentinels are equal iff their fields are.   *)
(***************************************************************************)
EXTENDS Integers, Sequences, FiniteSets, TLC

\* ------------------------------------------------------------------ bounds
MaxBody == 4        \* longest enumerated file body, in tokens
MaxOps == 2         \* codec operations applied to one enumerated file
MaxCommands == 3    \* commands run on one project

\* ------------------------------------------------------------------ tokens
NL == <<"nl">>
SP == <<"sp">>
DASH == <<"---">>
TX(c) == <<"tx", c>>

Positions == {"append", "prepend"}

startMarker(extensionName, skillName, position) ==
  <<"start", extensionName, skillName, position>>

endMarker(extensionName, skillName, position) ==
  <<"end", extensionName, skillName, position>>

IsWhite(tok) == tok = NL \/ tok = SP

Min(S) == CHOOSE x \in S : \A y \in S : x <= y

\* String.prototype.trimEnd: drop the trailing run of white space.
RECURSIVE trimEnd(_)
trimEnd(s) ==
  IF s = <<>> THEN s
  ELSE IF IsWhite(s[Len(s)]) THEN trimEnd(SubSeq(s, 1, Len(s) - 1))
  ELSE s

\* Array.prototype.join('\n') of the three parts of a block.
joinLines(a, b, c) == a \o <<NL>> \o b \o <<NL>> \o c

(***************************************************************************)
(* One attempt of the regular expression                                   *)
(*     \n?START\n[\s\S]*?\nEND\n?                                           *)
(* at index i of content: the index of the last token matched, 0 when      *)
(* there is no match at i.  starts and ends are the sets of sentinels the  *)
(* START and END parts accept.  The lazy middle ends at the first "\nEND"  *)
(* after the newline that follows START.                                   *)
(***************************************************************************)
matchAt(content, i, starts, ends) ==
  LET n == Len(content)
      k == IF i <= n /\ content[i] = NL THEN i + 1 ELSE i
  IN IF k + 1 <= n /\ content[k] \in starts /\ content[k + 1] = NL
     THEN LET js == {j \in (k + 2)..(n - 1) : content[j] = NL /\ content[j + 1] \in ends}
          IN IF js = {} THEN 0
             ELSE LET j == Min(js)
                  IN IF j + 2 <= n /\ content[j + 2] = NL THEN j + 2 ELSE j + 1
     ELSE 0

\* String.prototype.replace(regex /g, ''): scan left to right, drop each match.
RECURSIVE replaceAll(_, _, _, _)
replaceAll(content, i, starts, ends) ==
  IF i > Len(content) THEN <<>>
  ELSE LET e == matchAt(content, i, starts, ends)
       IN IF e = 0 THEN <<content[i]>> \o replaceAll(content, i + 1, starts, ends)
          ELSE replaceAll(content, e + 1, starts, ends)

stripInjection(content, extensionName, skillName, position) ==
  replaceAll(content, 1,
             {startMarker(extensionName, skillName, position)},
             {endMarker(extensionName, skillName, position)})

\* content.match(/^---\n[\s\S]*?\n---\n/): length of the match, 0 when none.
frontMatterLen(content) ==
  LET n == Len(content)
  IN IF n >= 2 /\ content[1] = DASH /\ content[2] = NL
     THEN LET js == {j \in 3..(n - 2) :
                       content[j] = NL /\ content[j + 1] = DASH /\ content[j + 2] = NL}
          IN IF js = {} THEN 0 ELSE Min(js) + 2
     ELSE 0

\* The injection written without the strip of the block already there.
applyInjection_noStrip(skillContent, injectionContent, position, extensionName, skillName) ==
  LET block == joinLines(<<startMarker(extensionName, skillName, position)>>,
                         trimEnd(injectionContent),
                         <<endMarker(extensionName, skillName, position)>>)
      afterFm == frontMatterLen(skillContent)
  IN IF position = "append"
     THEN trimEnd(skillContent) \o <<NL, NL>> \o block \o <<NL>>
     ELSE IF afterFm > 0
          THEN SubSeq(skillContent, 1, afterFm) \o <<NL>> \o block \o <<NL>>
                 \o SubSeq(skillContent, afterFm + 1, Len(skillContent))
          ELSE block \o <<NL, NL>> \o skillContent

applyInjection(skillContent, injectionContent, position, extensionName, skillName) ==
  LET content == stripInjection(skillContent, extensionName, skillName, position)
      block == joinLines(<<startMarker(extensionName, skillName, position)>>,
                         trimEnd(injectionContent),
                         <<endMarker(extensionName, skillName, position)>>)
  IN IF position = "append"
     THEN trimEnd(content) \o <<NL, NL>> \o block \o <<NL>>
     ELSE LET afterFm == frontMatterLen(content)
          IN IF afterFm > 0
             THEN SubSeq(content, 1, afterFm) \o <<NL>> \o block \o <<NL>>
                    \o SubSeq(content, afterFm + 1, Len(content))
             ELSE block \o <<NL, NL>> \o content

\* ---------------------------------------------------------------- universe
Agents == <<"a1", "a2">>                 \* config.agents, in list order
AgentIds == {Agents[i] : i \in 1..Len(Agents)}
ExtNames == {"A", "B"}                   \* extension names
Fallible == {"a2"}                       \* the agents an install is made to fail on
BaseSkills == {"b1", "b2"}               \* getAvailableSkills()
Paths == {"p1", "p2", "p3"}                    \* skill paths inside an extension
SkillNames == BaseSkills \cup Paths      \* ids a skill file is installed under

basename(skillPath) == skillPath         \* path.basename: "skills/p1" -> "p1"

Range(s) == {s[i] : i \in 1..Len(s)}

\* Array.prototype.filter, keeping the order.
RECURSIVE filterSeq(_, _)
filterSeq(s, keep) ==
  IF s = <<>> THEN <<>>
  ELSE (IF s[1] \in keep THEN <<s[1]>> ELSE <<>>) \o filterSeq(Tail(s), keep)

\* The front matter every SKILL.md starts with.
frontMatter(skillName) == <<DASH, NL, TX(skillName), NL, DASH, NL>>

\* The SKILL.md the core package ships for a base skill.
BaseContent(skillName) == frontMatter(skillName) \o <<<<"base", skillName>>, NL>>

\* The SKILL.md of the skill at skillPath of an extension, installed as skillName.
ExtContent(skillName, extensionName, version, skillPath) ==
  frontMatter(skillName) \o <<<<"ext", extensionName, version, skillPath>>, NL>>

\* The injection file of an extension: plain markdown, one line.
\* No extension ships a file "f0": readTextFile gives null for it.
InjectionFile(extensionName, version, file) ==
  IF file = "f0" THEN <<>> ELSE <<<<"inj", extensionName, version, file>>, NL>>

NoFile == <<>>     \* readTextFile gives null: the file does not exist

(***************************************************************************)
(* Manifests a source can resolve to (extension.json).  replaces is the    *)
(* list of Object.entries(manifest.replaces): <<path, base skill name>>.   *)
(***************************************************************************)
Inj(target, position, file) == [target |-> target, position |-> position, file |-> file]

\* manifest.commands of the sources below: the command modules, by name.
CommandNames == {"hello", "bye", "greet"}

commandsOf(name, version) ==
  IF name = "A" THEN (IF version = "v1" THEN <<"hello", "bye">> ELSE <<"hello">>)
  ELSE (IF version = "v1" THEN <<"greet">> ELSE <<>>)

Manifest(name, version, skills, replaces, injections) ==
  [name |-> name, version |-> version, skills |-> skills,
   replaces |-> replaces, injections |-> injections,
   commands |-> commandsOf(name, version)]

Sources ==
  { Manifest("A", "v1", <<"p1">>, << <<"p1", "b1">> >>, <<Inj("b2", "append", "f1")>>),
    Manifest("A", "v2", <<"p2">>, <<>>, <<Inj("b1", "prepend", "f1")>>),
    Manifest("B", "v1", <<"p1", "p2", "p3">>, << <<"p1", "b1">>, <<"p2", "p2">> >>,
             <<Inj("b1", "append", "f1")>>),
    Manifest("B", "v2", <<"p1", "p2">>, << <<"p1", "b2">>, <<"p2", "b2">> >>, <<>>) }

\* Object.keys / Object.values of manifest.replaces.
replaceKeys(replaces) == [i \in 1..Len(replaces) |-> replaces[i][1]]
replaceValues(replaces) == [i \in 1..Len(replaces) |-> replaces[i][2]]

\* nameOverrides[skillPath] ?? path.basename(skillPath)
overrideName(replaces, skillPath) ==
  LET is == {i \in 1..Len(replaces) : replaces[i][1] = skillPath}
  IN IF is = {} THEN basename(skillPath) ELSE replaces[Min(is)][2]

\* ------------------------------------------------------- injection engine
\* One agent's skill files: [SkillNames -> text], NoFile where there is none.
\* getSkillFilePath(projectDir, agent, skillName) is the key skillName.

\* A directive that is skipped counted as applied.
applyOneInjection_countsSkipped(fs, extensionName, version, injection) ==
  LET skillContent == fs[injection.target]
      injectionContent == InjectionFile(extensionName, version, injection.file)
  IN IF skillContent = NoFile \/ injectionContent = <<>>
     THEN [fs |-> fs, count |-> 1]
     ELSE [fs |-> [fs EXCEPT ![injection.target] =
                     applyInjection(skillContent, injectionContent, injection.position,
                                    extensionName, injection.target)],
           count |-> 1]

\* The loop body of applySingleExtensionInjections for one directive.
applyOneInjection(fs, extensionName, version, injection) ==
  LET skillContent == fs[injection.target]
      injectionContent == InjectionFile(extensionName, version, injection.file)
  IN IF skillContent = NoFile \/ injectionContent = <<>>
     THEN [fs |-> fs, count |-> 0]
     ELSE [fs |-> [fs EXCEPT ![injection.target] =
                     applyInjection(skillContent, injectionContent, injection.position,
                                    extensionName, injection.target)],
           count |-> 1]

RECURSIVE applyInjectionList(_, _, _, _)
applyInjectionList(fs, extensionName, version, injections) ==
  IF injections = <<>> THEN [fs |-> fs, count |-> 0]
  ELSE LET one == applyOneInjection(fs, extensionName, version, injections[1])
           rest == applyInjectionList(one.fs, extensionName, version, Tail(injections))
       IN [fs |-> rest.fs, count |-> one.count + rest.count]

applySingleExtensionInjections(fs, manifest) ==
  applyInjectionList(fs, manifest.name, manifest.version, manifest.injections)

\* applySingleExtensionInjections when writeTextFile throws for the targets in
\* failing: nothing in the loop catches, the exception leaves the function with
\* the files the earlier directives wrote.
RECURSIVE applyInjectionsOrThrow(_, _, _, _, _)
applyInjectionsOrThrow(fs, extensionName, version, injections, failing) ==
  IF injections = <<>> THEN [fs |-> fs, count |-> 0, threw |-> FALSE]
  ELSE LET one == applyOneInjection(fs, extensionName, version, injections[1])
       IN IF one.count = 1 /\ injections[1].target \in failing
          THEN [fs |-> fs, count |-> 0, threw |-> TRUE]
          ELSE LET rest == applyInjectionsOrThrow(one.fs, extensionName, version,
                                                  Tail(injections), failing)
               IN [fs |-> rest.fs, count |-> one.count + rest.count, threw |-> rest.threw]

\* loadAllExtensions keeps the registered names whose manifest loads;
\* sto[name] is <<manifest>> or <<>> (loadExtensionManifest gives null).
RECURSIVE applyExtensionInjections(_, _, _)
applyExtensionInjections(fs, registeredExtensions, sto) ==
  IF registeredExtensions = <<>> THEN [fs |-> fs, count |-> 0]
  ELSE LET name == registeredExtensions[1].name
           one == IF sto[name] = <<>> THEN [fs |-> fs, count |-> 0]
                  ELSE applySingleExtensionInjections(fs, sto[name][1])
           rest == applyExtensionInjections(one.fs, Tail(registeredExtensions), sto)
       IN [fs |-> rest.fs, count |-> one.count + rest.count]

RECURSIVE stripInjectionList(_, _, _)
stripInjectionList(fs, extensionName, injections) ==
  IF injections = <<>> THEN fs
  ELSE LET inj == injections[1]
           skillContent == fs[inj.target]
           next == IF skillContent = NoFile THEN fs
                   ELSE [fs EXCEPT ![inj.target] =
                           stripInjection(skillContent, extensionName, inj.target, inj.position)]
       IN stripInjectionList(next, extensionName, Tail(injections))

stripAllExtensionInjections(fs, extensionName, manifest) ==
  stripInjectionList(fs, extensionName, manifest.injections)

\* The sentinels extensionMarkerRegex accepts: any skill, any position.
startsOf(extensionName) ==
  {startMarker(extensionName, sk, pos) : sk \in SkillNames, pos \in Positions}
endsOf(extensionName) ==
  {endMarker(extensionName, sk, pos) : sk \in SkillNames, pos \in Positions}

stripAllMarkersForExtension(content, extensionName) ==
  replaceAll(content, 1, startsOf(extensionName), endsOf(extensionName))

\* content.includes(`aif-ext:${extensionName}:`)
includesName(content, extensionName) ==
  \E i \in 1..Len(content) :
     content[i] \in startsOf(extensionName) \cup endsOf(extensionName)

\* Every markdown file under the agent's directory is one of the skill files.
stripInjectionsByExtensionName(fs, extensionName) ==
  [sk \in SkillNames |->
     IF fs[sk] = NoFile \/ ~includesName(fs[sk], extensionName) THEN fs[sk]
     ELSE stripAllMarkersForExtension(fs[sk], extensionName)]

\* --------------------------------------------------------------- installer
\* core/installer.ts, a collaborator of the commands: install(id) -> ok / fail,
\* remove(ids).  An install that fails leaves the agent's file as it was.

\* removeExtensionSkills(projectDir, agent, skillNames): the skills' directories go.
removeExtensionSkills(fs, skillNames) ==
  [sk \in SkillNames |-> IF sk \in {basename(n) : n \in skillNames} THEN NoFile ELSE fs[sk]]

\* installSkills({skills}): the package's copy of each named base skill is written.
installSkills(fs, skills) ==
  [sk \in SkillNames |-> IF sk \in skills \cap BaseSkills THEN BaseContent(sk) ELSE fs[sk]]

\* updateSkills(agent, projectDir, excludeSkills): every base skill but the excluded.
updateSkills(fs, excludeSkills) == installSkills(fs, BaseSkills \ excludeSkills)

\* installExtensionSkills(projectDir, agent, extensionDir, skillPaths, nameOverrides):
\* each path in turn, under its override or its basename; ok holds the paths whose
\* install succeeds for this agent.  Gives the files and the names installed.
RECURSIVE installExtensionSkills(_, _, _, _, _)
installExtensionSkills(fs, manifest, skillPaths, nameOverrides, ok) ==
  IF skillPaths = <<>> THEN [fs |-> fs, installed |-> <<>>]
  ELSE LET skillPath == skillPaths[1]
           skillName == overrideName(nameOverrides, skillPath)
           one == IF skillPath \in ok
                  THEN [fs EXCEPT ![skillName] =
                          ExtContent(skillName, manifest.name, manifest.version, skillPath)]
                  ELSE fs
           rest == installExtensionSkills(one, manifest, Tail(skillPaths), nameOverrides, ok)
       IN [fs |-> rest.fs,
           installed |-> (IF skillPath \in ok THEN <<skillName>> ELSE <<>>) \o rest.installed]

\* How often name occurs in a list.
occurrences(s, name) == Cardinality({i \in 1..Len(s) : s[i] = name})

\* ------------------------------------------------------------------- state
VARIABLES
  extensions,   \* config.extensions as saved in .ai-factory.json
  storage,      \* .ai-factory/extensions/<name>/: <<manifest>>, <<>> when none loads
  files,        \* files[agent][skillName]: the agent's installed skill files
  last,         \* what the last command did
  ncmd,         \* how many commands have run
  cli,          \* what the startup of the running CLI process loaded
  cOrig, cDoc, cPrev, cB, cPos, cOps,  \* the codec exercised on one text
  remoteSkills, \* remoteSkills[agent]: agent.remoteSkills as saved in .ai-factory.json
  skillDirs,    \* skillDirs[agent][name]: the remote skill installed under the name
  temps,        \* the temporary directories under os.tmpdir() that exist
  head,         \* head[repo]: the latest commit of the repository's branch
  slast         \* what the last skill command did

lifecycleVars == <<extensions, storage, files, last, ncmd, cli>>
codecVars == <<cOrig, cDoc, cPrev, cB, cPos, cOps>>
skillVars == <<remoteSkills, skillDirs, temps, head, slast>>
vars == <<extensions, storage, files, last, ncmd, cli, cOrig, cDoc, cPrev, cB, cPos, cOps,
          remoteSkills, skillDirs, temps, head, slast>>

Record(name, version, replacedSkills) ==
  [name |-> name, version |-> version, replacedSkills |-> replacedSkills]

\* What is remembered of the last command: the command, the extension and the
\* version it was given, how it ended, and
\*   partial   <<id, agent>>: the replacement under id installed on the agent,
\*             and on some agents, not on all,
\*   full      the ids whose replacement installed on every agent,
\*   released  the ids the command took from a record or found a record owning,
\*   notes     "markers": the extension had a sentinel in a file before it,
\*             "no-manifest": no stored manifest of the extension loaded,
\*   steps     the number of steps of the command that completed,
\*   late      the steps that changed an agent's file after saveConfig,
\*   restored  the released ids the command gave installSkills to restore,
\*   cleaned   the custom skills of the stored manifest a re-install removed,
\*   count     the number applySingleExtensionInjections returned,
\*   agents    the agents whose injection pass returned,
\*   failing   <<agent, target>>: the writes of the target's file that threw,
\*   saves     the config.extensions each saveConfig of the command wrote.
Report(op, name, version, outcome, partial, full, released, notes) ==
  [op |-> op, name |-> name, version |-> version, outcome |-> outcome,
   partial |-> partial, full |-> full, released |-> released, notes |-> notes,
   steps |-> 0, late |-> {}, restored |-> {}, cleaned |-> {},
   count |-> 0, agents |-> {}, failing |-> {}, saves |-> <<>>]

Saving(report, saves) == [report EXCEPT !.saves = saves]

Injecting(report, count, agents, failing) ==
  [report EXCEPT !.count = count, !.agents = agents, !.failing = failing]

Cleaning(report, skillPaths) == [report EXCEPT !.cleaned = skillPaths]

Restoring(report, toRestore) == [report EXCEPT !.restored = Range(toRestore)]

Timed(report, steps, late) == [report EXCEPT !.steps = steps, !.late = late]

Quiet(op, name, version, outcome) == Report(op, name, version, outcome, {}, {}, {}, {})

\* extensions.findIndex(e => e.name === name), 1-based; 0 for -1.
findIndex(exts, name) ==
  LET is == {i \in 1..Len(exts) : exts[i].name = name}
  IN IF is = {} THEN 0 ELSE Min(is)

\* extensions.filter((_, i) => i !== index)
without(exts, index) ==
  [i \in 1..(Len(exts) - 1) |-> IF i < index THEN exts[i] ELSE exts[i + 1]]

\* The union of the replacedSkills of a list of records.
allReplaced(exts) == UNION {Range(exts[i].replacedSkills) : i \in 1..Len(exts)}

\* -------------------------------------------------------- extension add
\* The conflict check with the test of the record's name turned around: only the
\* extension's own record is looked at.
hasConflict_ownRecordOnly(manifest, exts) ==
  \E i \in 1..Len(manifest.replaces), j \in 1..Len(exts) :
     /\ exts[j].name = manifest.name
     /\ manifest.replaces[i][2] \in Range(exts[j].replacedSkills)

\* The conflict check of extensionAddCommand.
hasConflict(manifest, exts) ==
  \E i \in 1..Len(manifest.replaces), j \in 1..Len(exts) :
     /\ exts[j].name # manifest.name
     /\ manifest.replaces[i][2] \in Range(exts[j].replacedSkills)

\* "Remove old replacement skills": removal on every agent.
removeOldReplacements(fsAll, oldRecord) ==
  IF oldRecord.replacedSkills = <<>> THEN fsAll
  ELSE [a \in AgentIds |-> removeExtensionSkills(fsAll[a], Range(oldRecord.replacedSkills))]

\* oldRecord.replacedSkills.filter(s => available.includes(s))
reinstallToRestore(oldRecord) == filterSeq(oldRecord.replacedSkills, BaseSkills)

\* ... then the base skills among them are installed again.
restoreOldReplacements(fsAll, oldRecord) ==
  LET toRestore == reinstallToRestore(oldRecord)
  IN IF toRestore = <<>> THEN fsAll
     ELSE [a \in AgentIds |-> installSkills(fsAll[a], Range(toRestore))]

\* "Remove old extension custom skills using the OLD manifest".
removeOldCustomSkills(fsAll, oldManifest) ==
  IF oldManifest = <<>> THEN fsAll
  ELSE LET oldReplacesPaths == Range(replaceKeys(oldManifest[1].replaces))
           oldCustomSkills == filterSeq(oldManifest[1].skills, Paths \ oldReplacesPaths)
       IN IF oldCustomSkills = <<>> THEN fsAll
          ELSE [a \in AgentIds |-> removeExtensionSkills(fsAll[a], Range(oldCustomSkills))]

\* perAgentResults: base name -> number of installs reported over all agents.
RECURSIVE countInstalled(_, _, _)
countInstalled(installedBy, i, name) ==
  IF i > Len(Agents) THEN 0
  ELSE occurrences(installedBy[Agents[i]], name) + countInstalled(installedBy, i + 1, name)

\* A rollback that takes every installed skill away, not the one id.
rollbackReplacement_everySkill(fsAll, baseSkillName) ==
  LET removed == [a \in AgentIds |-> removeExtensionSkills(fsAll[a], SkillNames)]
  IN [a \in AgentIds |-> installSkills(removed[a], BaseSkills)]

\* The rollback of one partly installed replacement.
rollbackReplacement(fsAll, baseSkillName) ==
  LET removed == [a \in AgentIds |-> removeExtensionSkills(fsAll[a], {baseSkillName})]
  IN IF baseSkillName \in BaseSkills
     THEN [a \in AgentIds |-> installSkills(removed[a], {baseSkillName})]
     ELSE removed

\* The loop over Object.entries(manifest.replaces) after the installs.
RECURSIVE settleReplacements(_, _, _)
settleReplacements(fsAll, entries, installedBy) ==
  IF entries = <<>> THEN [fs |-> fsAll, replacedSkills |-> <<>>]
  ELSE LET baseSkillName == entries[1][2]
           successCount == countInstalled(installedBy, 1, baseSkillName)
           agentCount == Len(Agents)
           one == IF successCount = agentCount THEN fsAll
                  ELSE IF successCount > 0 THEN rollbackReplacement(fsAll, baseSkillName)
                  ELSE fsAll
           rest == settleReplacements(one, Tail(entries), installedBy)
       IN [fs |-> rest.fs,
           replacedSkills |->
             (IF successCount = agentCount THEN <<baseSkillName>> ELSE <<>>)
               \o rest.replacedSkills]

\* Steps of extensionAddCommand after the conflict check, in program order:
\*  1 commitExtensionInstall        6 install the replacements on every agent
\*  2 strip the old markers          7 count, keep or roll back each replacement
\*  3 remove the old replacements    8 install the custom skills
\*  4 restore their base skills      9 saveConfig with the new record
\*  5 remove the old custom skills  10 apply the injections
\* stop is the number of steps completed; below InstallSteps the next step
\* threw and the command ended in its catch block.
InstallSteps == 10
InstallSave == 9     \* saveConfig is the ninth
\* The points at which an install is made to stop.
InstallStops == {0, 1, 4, 7, 9, InstallSteps}

nonReplacementSkills(manifest) ==
  filterSeq(manifest.skills, Paths \ Range(replaceKeys(manifest.replaces)))

okPaths(ok, a) == {p \in Paths : <<a, p>> \in ok}

\* "Clean up old state on re-install", the first loop.
stripOldInjections(fsAll, name) ==
  [a \in AgentIds |-> stripInjectionsByExtensionName(fsAll[a], name)]

\* The loop that installs the replacements on every agent.
installReplacements(fsAll, manifest, okR) ==
  [a \in AgentIds |->
     installExtensionSkills(fsAll[a], manifest, replaceKeys(manifest.replaces),
                            manifest.replaces, okPaths(okR, a))]

settleInstalled(inst, manifest) ==
  settleReplacements([a \in AgentIds |-> inst[a].fs], manifest.replaces,
                     [a \in AgentIds |-> inst[a].installed])

\* "Install extension custom skills (excluding replacements)".
installCustomSkills(fsAll, manifest, okC) ==
  [a \in AgentIds |->
     installExtensionSkills(fsAll[a], manifest, nonReplacementSkills(manifest), <<>>,
                            okPaths(okC, a)).fs]

\* "Apply injections for all agents".
applyInjectionsOnAgents(fsAll, manifest) ==
  [a \in AgentIds |-> applySingleExtensionInjections(fsAll[a], manifest).fs]

\* Clean-up of the old state (steps 2 to 5), as far as stop lets it run.
cleanedUp(fsAll, name, oldRecord, oldManifest, stop) ==
  LET fs2 == IF stop >= 2 THEN stripOldInjections(fsAll, name) ELSE fsAll
      fs3 == IF stop >= 3 THEN removeOldReplacements(fs2, oldRecord) ELSE fs2
      fs4 == IF stop >= 4 /\ oldRecord.replacedSkills # <<>>
             THEN restoreOldReplacements(fs3, oldRecord) ELSE fs3
  IN IF stop >= 5 THEN removeOldCustomSkills(fs4, oldManifest) ELSE fs4

\* The injections applied with the custom skills, before saveConfig.
finished_injectBeforeSave(fsAll, manifest, okC, stop) ==
  LET fs8 == IF stop >= 8 THEN installCustomSkills(fsAll, manifest, okC) ELSE fsAll
  IN IF stop >= 8 THEN applyInjectionsOnAgents(fs8, manifest) ELSE fs8

\* Steps 8 and 10 on the files the replacement steps left.
finished(fsAll, manifest, okC, stop) ==
  LET fs8 == IF stop >= 8 THEN installCustomSkills(fsAll, manifest, okC) ELSE fsAll
  IN IF stop >= 10 THEN applyInjectionsOnAgents(fs8, manifest) ELSE fs8

\* The command from step 6 on: the files, the record's replacedSkills and the
\* files as saveConfig found them.
installed(fs5, manifest, okR, okC, stop) ==
  LET inst == IF stop >= 6 THEN installReplacements(fs5, manifest, okR)
              ELSE [a \in AgentIds |-> [fs |-> fs5[a], installed |-> <<>>]]
  IN LET settled == IF stop >= 7 THEN settleInstalled(inst, manifest)
                    ELSE [fs |-> [a \in AgentIds |-> inst[a].fs], replacedSkills |-> <<>>]
     IN [fs |-> finished(settled.fs, manifest, okC, stop),
         replacedSkills |-> settled.replacedSkills,
         atSave |-> finished(settled.fs, manifest, okC, Min({stop, InstallSave}))]

\* The agents on which the install of a replacement under each name succeeded.
succeededOn(manifest, okR, sk) ==
  {a \in AgentIds : \E i \in 1..Len(manifest.replaces) :
     manifest.replaces[i][2] = sk /\ <<a, manifest.replaces[i][1]>> \in okR}

\* The agents on which some install of a replacement under the name failed.
failedOn(manifest, okR, sk) ==
  {a \in AgentIds : \E i \in 1..Len(manifest.replaces) :
     manifest.replaces[i][2] = sk /\ <<a, manifest.replaces[i][1]>> \notin okR}

\* The custom skills of the manifest that was in the storage when a re-install
\* began, once the re-install has removed them.
oldCustomSkills(sto, name, existIdx, stop) ==
  IF existIdx > 0 /\ sto[name] # <<>> /\ stop >= 5
  THEN Range(nonReplacementSkills(sto[name][1])) ELSE {}

\* The command with the old manifest loaded after the new files were copied.
extensionAddResult_manifestAfterCopy(fileSystem, manifest, okR, okC, stop, exts, sto) ==
  LET name == manifest.name
      existIdx == findIndex(exts, name)
      oldRecord == IF existIdx > 0 THEN exts[existIdx] ELSE Record(name, "", <<>>)
      oldManifest == IF existIdx > 0 THEN <<manifest>> ELSE <<>>
      fs5 == IF existIdx > 0 THEN cleanedUp(fileSystem, name, oldRecord, oldManifest, stop)
             ELSE fileSystem
  IN installed(fs5, manifest, okR, okC, stop)

extensionAddResult(fileSystem, manifest, okR, okC, stop, exts, sto) ==
  LET name == manifest.name
      existIdx == findIndex(exts, name)
      oldRecord == IF existIdx > 0 THEN exts[existIdx] ELSE Record(name, "", <<>>)
      oldManifest == IF existIdx > 0 THEN sto[name] ELSE <<>>
      fs5 == IF existIdx > 0 THEN cleanedUp(fileSystem, name, oldRecord, oldManifest, stop)
             ELSE fileSystem
  IN installed(fs5, manifest, okR, okC, stop)

\* The command with saveConfig moved before the custom skills are installed.
extensionAddEnd_saveEarly(manifest, okR, stop, done) ==
  LET name == manifest.name
      existIdx == findIndex(extensions, name)
      oldRecord == IF existIdx > 0 THEN extensions[existIdx] ELSE Record(name, "", <<>>)
      record == Record(name, manifest.version, done.replacedSkills)
  IN /\ files' = done.fs
     /\ extensions' = IF stop < 7 THEN extensions
                      ELSE IF existIdx > 0 THEN [extensions EXCEPT ![existIdx] = record]
                      ELSE Append(extensions, record)
     /\ storage' = IF stop >= 1 THEN [storage EXCEPT ![name] = <<manifest>>] ELSE storage
     /\ last' = Cleaning(Restoring(Timed(Report("install", name, manifest.version,
                       IF stop = InstallSteps THEN "ok" ELSE "error",
                       {<<sk, a>> \in Range(replaceValues(manifest.replaces)) \X AgentIds :
                          /\ stop >= 6
                          /\ succeededOn(manifest, okR, sk) \notin {{}, AgentIds}
                          /\ a \in succeededOn(manifest, okR, sk)},
                       {sk \in Range(replaceValues(manifest.replaces)) :
                          stop >= 6 /\ failedOn(manifest, okR, sk) = {}},
                       IF stop >= 3 THEN Range(oldRecord.replacedSkills) ELSE {},
                       {}),
                     stop,
                     IF stop > InstallSave /\ done.fs # done.atSave
                     THEN {InstallSteps} ELSE {}),
                   IF stop >= 4 THEN reinstallToRestore(oldRecord) ELSE <<>>),
                   oldCustomSkills(storage, name, existIdx, stop))

\* The command with the record always pushed, never written in place.
extensionAddEnd_alwaysPush(manifest, okR, stop, done) ==
  LET name == manifest.name
      existIdx == findIndex(extensions, name)
      oldRecord == IF existIdx > 0 THEN extensions[existIdx] ELSE Record(name, "", <<>>)
      record == Record(name, manifest.version, done.replacedSkills)
  IN /\ files' = done.fs
     /\ extensions' = IF stop < InstallSave THEN extensions
                      ELSE Append(extensions, record)
     /\ storage' = IF stop >= 1 THEN [storage EXCEPT ![name] = <<manifest>>] ELSE storage
     /\ last' = Cleaning(Restoring(Timed(Report("install", name, manifest.version,
                       IF stop = InstallSteps THEN "ok" ELSE "error",
                       {<<sk, a>> \in Range(replaceValues(manifest.replaces)) \X AgentIds :
                          /\ stop >= 6
                          /\ succeededOn(manifest, okR, sk) \notin {{}, AgentIds}
                          /\ a \in succeededOn(manifest, okR, sk)},
                       {sk \in Range(replaceValues(manifest.replaces)) :
                          stop >= 6 /\ failedOn(manifest, okR, sk) = {}},
                       IF stop >= 3 THEN Range(oldRecord.replacedSkills) ELSE {},
                       {}),
                     stop,
                     IF stop > InstallSave /\ done.fs # done.atSave
                     THEN {InstallSteps} ELSE {}),
                   IF stop >= 4 THEN reinstallToRestore(oldRecord) ELSE <<>>),
                   oldCustomSkills(storage, name, existIdx, stop))

\* What the command leaves behind: saveConfig is step 9, and a command that
\* stopped earlier exits without saving.
extensionAddEnd(manifest, okR, stop, done) ==
  LET name == manifest.name
      existIdx == findIndex(extensions, name)
      oldRecord == IF existIdx > 0 THEN extensions[existIdx] ELSE Record(name, "", <<>>)
      record == Record(name, manifest.version, done.replacedSkills)
  IN /\ files' = done.fs
     /\ extensions' = IF stop < InstallSave THEN extensions
                      ELSE IF existIdx > 0 THEN [extensions EXCEPT ![existIdx] = record]
                      ELSE Append(extensions, record)
     /\ storage' = IF stop >= 1 THEN [storage EXCEPT ![name] = <<manifest>>] ELSE storage
     /\ last' = Saving(Cleaning(Restoring(Timed(Report("install", name, manifest.version,
                       IF stop = InstallSteps THEN "ok" ELSE "error",
                       {<<sk, a>> \in Range(replaceValues(manifest.replaces)) \X AgentIds :
                          /\ stop >= 6
                          /\ succeededOn(manifest, okR, sk) \notin {{}, AgentIds}
                          /\ a \in succeededOn(manifest, okR, sk)},
                       {sk \in Range(replaceValues(manifest.replaces)) :
                          stop >= 6 /\ failedOn(manifest, okR, sk) = {}},
                       IF stop >= 3 THEN Range(oldRecord.replacedSkills) ELSE {},
                       {}),
                     stop,
                     IF stop > InstallSave /\ done.fs # done.atSave
                     THEN {InstallSteps} ELSE {}),
                   IF stop >= 4 THEN reinstallToRestore(oldRecord) ELSE <<>>),
                   oldCustomSkills(storage, name, existIdx, stop)),
                 IF stop >= InstallSave THEN <<extensions'>> ELSE <<>>)

\* The command with the files copied before the conflict check.
extensionAddCommand_copyFirst(manifest, okR, okC, stop) ==
  IF hasConflict(manifest, extensions)
  THEN /\ last' = Quiet("install", manifest.name, manifest.version, "conflict")
       /\ storage' = [storage EXCEPT ![manifest.name] = <<manifest>>]
       /\ UNCHANGED <<extensions, files>>
  ELSE extensionAddEnd(manifest, okR, stop,
         extensionAddResult(files, manifest, okR, okC, stop, extensions, storage))

extensionAddCommand(manifest, okR, okC, stop) ==
  IF hasConflict(manifest, extensions)
  THEN /\ last' = Quiet("install", manifest.name, manifest.version, "conflict")
       /\ UNCHANGED <<extensions, storage, files>>
  ELSE extensionAddEnd(manifest, okR, stop,
         extensionAddResult(files, manifest, okR, okC, stop, extensions, storage))

\* A resolution that fails after it emptied the extension's storage directory.
extensionAddUnresolved_clearsStorage(name) ==
  /\ last' = Quiet("install", name, "", "unresolved")
  /\ storage' = [storage EXCEPT ![name] = <<>>]
  /\ UNCHANGED <<extensions, files>>

\* The source does not resolve: resolveExtension throws, nothing was written.
extensionAddUnresolved(name) ==
  /\ last' = Quiet("install", name, "", "unresolved")
  /\ UNCHANGED <<extensions, storage, files>>

\* extensionAddCommand on a source that resolves to one of the manifests.
InstallOf(sources) ==
  \E manifest \in sources :
    \E stop \in InstallStops :
      \E okR \in SUBSET (AgentIds \X Range(replaceKeys(manifest.replaces))) :
        \E okC \in SUBSET (AgentIds \X Range(nonReplacementSkills(manifest))) :
          /\ (AgentIds \ Fallible) \X Range(replaceKeys(manifest.replaces)) \subseteq okR
          /\ (AgentIds \ Fallible) \X Range(nonReplacementSkills(manifest)) \subseteq okC
          \* the outcome of an install that never ran is not a choice
          /\ stop < 6 => okR = AgentIds \X Range(replaceKeys(manifest.replaces))
          /\ stop < 8 => okC = AgentIds \X Range(nonReplacementSkills(manifest))
          /\ (findIndex(extensions, manifest.name) = 0 \/ hasConflict(manifest, extensions))
               => stop \notin 2..5
          /\ hasConflict(manifest, extensions) => stop = 0
          /\ extensionAddCommand(manifest, okR, okC, stop)
          /\ UNCHANGED <<codecVars, skillVars>>

Install == InstallOf(Sources)

InstallUnresolved ==
  \E name \in ExtNames : extensionAddUnresolved(name) /\ UNCHANGED <<codecVars, skillVars>>

\* ------------------------------------------------------ extension remove
\* Steps of extensionRemoveCommand once the record is found, in program order:
\*  1 strip the markers (by manifest, else by name)   4 restore the base skills
\*  2 remove the replacement skills                   5 removeExtensionFiles
\*  3 remove the custom skills                        6 splice the record, saveConfig
RemoveSteps == 6
\* The points at which a remove is made to stop; at 4 the removal of the MCP
\* servers (settings files, not among the agents' skill files) or
\* removeExtensionFiles threw.
RemoveStops == {0, 2, 4, 5, RemoveSteps}

\* The restoration with nothing found to restore.
removeToRestore_nothing(extRecord, otherExtensions) == <<>>

\* "Only restore base skills if no other extension replaces them".
removeToRestore(extRecord, otherExtensions) ==
  filterSeq(extRecord.replacedSkills, BaseSkills \ allReplaced(otherExtensions))

\* Steps 1 to 4 on the agents' files, as far as stop lets them run.
extensionRemoveFiles(fsAll, name, manifest, extRecord, otherExtensions, stop) ==
  LET fs1 == IF stop < 1 THEN fsAll
             ELSE [a \in AgentIds |->
                     IF manifest # <<>>
                     THEN stripAllExtensionInjections(fsAll[a], name, manifest[1])
                     ELSE stripInjectionsByExtensionName(fsAll[a], name)]
      fs2 == IF stop >= 2 THEN removeOldReplacements(fs1, extRecord) ELSE fs1
      fs3 == IF stop >= 3
             THEN removeOldCustomSkills(fs2, manifest) ELSE fs2
      toRestore == removeToRestore(extRecord, otherExtensions)
  IN IF stop >= 4 /\ toRestore # <<>>
     THEN [a \in AgentIds |-> installSkills(fs3[a], Range(toRestore))]
     ELSE fs3

\* A remove that deletes the extension's files before it looks for the record.
extensionRemoveCommand_filesFirst(name, stop) ==
  /\ last' = Quiet("remove", name, "", "not-installed")
  /\ storage' = [storage EXCEPT ![name] = <<>>]
  /\ UNCHANGED <<extensions, files>>

\* A remove that splices and saves the record before its other steps.
extensionRemoveCommand_spliceFirst(name, stop) ==
  LET index == findIndex(extensions, name)
  IN IF index = 0
     THEN /\ last' = Quiet("remove", name, "", "not-installed")
          /\ UNCHANGED <<extensions, storage, files>>
     ELSE /\ files' = extensionRemoveFiles(files, name, storage[name], extensions[index],
                                           without(extensions, index), stop)
          /\ storage' = IF stop >= 5 THEN [storage EXCEPT ![name] = <<>>] ELSE storage
          /\ extensions' = without(extensions, index)
          /\ last' = Restoring(Timed(Report("remove", name, "",
                            IF stop = RemoveSteps THEN "ok" ELSE "error", {}, {},
                            IF stop >= 2 THEN Range(extensions[index].replacedSkills) ELSE {},
                            (IF \E a \in AgentIds, sk \in SkillNames :
                                     includesName(files[a][sk], name)
                             THEN {"markers"} ELSE {})
                              \cup (IF storage[name] = <<>> THEN {"no-manifest"} ELSE {})),
                          stop, {}),
                        IF stop >= 4
                        THEN removeToRestore(extensions[index], without(extensions, index))
                        ELSE <<>>)

extensionRemoveCommand(name, stop) ==
  LET index == findIndex(extensions, name)
  IN IF index = 0
     THEN /\ last' = Quiet("remove", name, "", "not-installed")
          /\ UNCHANGED <<extensions, storage, files>>
     ELSE /\ files' = extensionRemoveFiles(files, name, storage[name], extensions[index],
                                           without(extensions, index), stop)
          /\ storage' = IF stop >= 5 THEN [storage EXCEPT ![name] = <<>>] ELSE storage
          /\ extensions' = IF stop >= 6 THEN without(extensions, index) ELSE extensions
          /\ last' = Saving(Restoring(Timed(Report("remove", name, "",
                            IF stop = RemoveSteps THEN "ok" ELSE "error", {}, {},
                            IF stop >= 2 THEN Range(extensions[index].replacedSkills) ELSE {},
                            (IF \E a \in AgentIds, sk \in SkillNames :
                                     includesName(files[a][sk], name)
                             THEN {"markers"} ELSE {})
                              \cup (IF storage[name] = <<>> THEN {"no-manifest"} ELSE {})),
                          stop, {}),
                        IF stop >= 4
                        THEN removeToRestore(extensions[index], without(extensions, index))
                        ELSE <<>>),
                      IF stop >= RemoveSteps THEN <<extensions'>> ELSE <<>>)

Remove ==
  \E name \in ExtNames :
    \E stop \in RemoveStops :
      /\ findIndex(extensions, name) = 0 => stop = 0
      /\ extensionRemoveCommand(name, stop)
      /\ UNCHANGED <<codecVars, skillVars>>

\* ------------------------------------------------------------------ update
\* Steps of updateCommand, in program order:
\*  1 updateSkills on every agent, the replaced skills excluded
\*  2 re-install the replacements of every record from its stored manifest
\*  3 install the base skills of the replacements that were given up
\*  4 re-apply the injections of every record
\*  5 saveConfig
UpdateSteps == 5
UpdateStops == {0, 2, 4, UpdateSteps}

\* Object.entries(manifest.replaces).filter(base in ext.replacedSkills).map(path)
RECURSIVE ownedReplacePaths(_, _)
ownedReplacePaths(replaces, replacedSkills) ==
  IF replaces = <<>> THEN <<>>
  ELSE (IF replaces[1][2] \in Range(replacedSkills) THEN <<replaces[1][1]>> ELSE <<>>)
         \o ownedReplacePaths(Tail(replaces), replacedSkills)

\* The loop "Re-install replacement skills from extensions", from record i on.
\* okU holds the <<extension, agent, path>> whose install succeeds.
RECURSIVE reinstallReplacements(_, _, _, _, _)
reinstallReplacements(exts, i, fsAll, sto, okU) ==
  IF i > Len(exts) THEN [exts |-> exts, fs |-> fsAll, failedReplacements |-> <<>>]
  ELSE
    LET ext == exts[i]
        loaded == sto[ext.name]
    IN IF ext.replacedSkills = <<>>
       THEN reinstallReplacements(exts, i + 1, fsAll, sto, okU)
       ELSE IF loaded = <<>> \/ loaded[1].replaces = <<>>
       THEN LET rest == reinstallReplacements([exts EXCEPT ![i].replacedSkills = <<>>],
                                              i + 1, fsAll, sto, okU)
            IN [rest EXCEPT !.failedReplacements = ext.replacedSkills \o @]
       ELSE
         LET manifest == loaded[1]
             manifestBaseSkills == Range(replaceValues(manifest.replaces))
             replacePaths == ownedReplacePaths(manifest.replaces, ext.replacedSkills)
             orphanedReplacements ==
               filterSeq(ext.replacedSkills, SkillNames \ manifestBaseSkills)
             kept == filterSeq(ext.replacedSkills, manifestBaseSkills)
             fsNext == IF replacePaths = <<>> THEN fsAll
                       ELSE [a \in AgentIds |->
                               installExtensionSkills(
                                 fsAll[a], manifest, replacePaths, manifest.replaces,
                                 {p \in Paths : <<ext.name, a, p>> \in okU}).fs]
             rest == reinstallReplacements([exts EXCEPT ![i].replacedSkills = kept],
                                           i + 1, fsNext, sto, okU)
         IN [rest EXCEPT !.failedReplacements = orphanedReplacements \o @]

\* The restoration with nothing found to restore.
updateToRestore_nothing(failedReplacements, exts) == <<>>

\* "Install base skills that couldn't be replaced ... only if no other
\* extension still replaces them".
updateToRestore(failedReplacements, exts) ==
  filterSeq(failedReplacements, SkillNames \ allReplaced(exts))

\* The installs the re-install loop performs: its choice of outcomes.
reinstallTargets(exts, sto) ==
  {<<exts[i].name, a, p>> : i \in 1..Len(exts), a \in AgentIds, p \in Paths} \cap
  {t \in ExtNames \X AgentIds \X Paths :
     \E i \in 1..Len(exts) :
        /\ exts[i].name = t[1]
        /\ sto[t[1]] # <<>>
        /\ t[3] \in Range(ownedReplacePaths(sto[t[1]][1].replaces, exts[i].replacedSkills))}

\* Step 3 alone: the injections are not applied again.
updateFinish_noReapply(re, sto, stop) ==
  LET toRestore == updateToRestore(re.failedReplacements, re.exts)
  IN IF stop >= 3 /\ toRestore # <<>>
     THEN [a \in AgentIds |-> installSkills(re.fs[a], Range(toRestore))]
     ELSE re.fs

\* Steps 3 and 4 on what the re-install loop left.
updateFinish(re, sto, stop) ==
  LET toRestore == updateToRestore(re.failedReplacements, re.exts)
      fs3 == IF stop >= 3 /\ toRestore # <<>>
             THEN [a \in AgentIds |-> installSkills(re.fs[a], Range(toRestore))]
             ELSE re.fs
  IN IF stop >= 4
     THEN [a \in AgentIds |-> applyExtensionInjections(fs3[a], re.exts, sto).fs]
     ELSE fs3

updateSkillsOnAgents(fsAll, exts) ==
  [a \in AgentIds |-> updateSkills(fsAll[a], allReplaced(exts))]

\* The update saving the records as it read them, not as the loop left them.
updateEnd_keepsRecords(re, stop) ==
  /\ files' = updateFinish(re, storage, stop)
  /\ extensions' = extensions
  /\ UNCHANGED storage
  /\ last' = Restoring(Timed(Report("update", "", "",
                                    IF stop = UpdateSteps THEN "ok" ELSE "error",
                                    {}, {}, Range(re.failedReplacements), {}),
                             stop, {}),
                       IF stop >= 3 THEN updateToRestore(re.failedReplacements, re.exts)
                       ELSE <<>>)

\* The update saving the records when the re-install loop has changed them, and
\* again at its end.
updateEnd_savesInLoop(re, stop) ==
  /\ files' = updateFinish(re, storage, stop)
  /\ extensions' = IF stop >= 2 THEN re.exts ELSE extensions
  /\ UNCHANGED storage
  /\ last' = Saving(Restoring(Timed(Report("update", "", "",
                                    IF stop = UpdateSteps THEN "ok" ELSE "error",
                                    {}, {}, Range(re.failedReplacements), {}),
                             stop, {}),
                       IF stop >= 3 THEN updateToRestore(re.failedReplacements, re.exts)
                       ELSE <<>>),
                  IF stop >= UpdateSteps THEN <<re.exts, re.exts>>
                  ELSE IF stop >= 2 THEN <<re.exts>> ELSE <<>>)

updateEnd(re, stop) ==
  /\ files' = updateFinish(re, storage, stop)
  /\ extensions' = IF stop >= 5 THEN re.exts ELSE extensions
  /\ UNCHANGED storage
  /\ last' = Saving(Restoring(Timed(Report("update", "", "",
                                    IF stop = UpdateSteps THEN "ok" ELSE "error",
                                    {}, {}, Range(re.failedReplacements), {}),
                             stop, {}),
                       IF stop >= 3 THEN updateToRestore(re.failedReplacements, re.exts)
                       ELSE <<>>),
                  IF stop >= UpdateSteps THEN <<extensions'>> ELSE <<>>)

updateCommand(okU, stop) ==
  updateEnd(IF stop >= 2
            THEN reinstallReplacements(extensions, 1,
                                       updateSkillsOnAgents(files, extensions), storage, okU)
            ELSE [exts |-> extensions,
                  fs |-> IF stop >= 1 THEN updateSkillsOnAgents(files, extensions) ELSE files,
                  failedReplacements |-> <<>>],
            stop)

Update ==
  \E stop \in UpdateStops :
    \E okU \in SUBSET reinstallTargets(extensions, storage) :
      /\ stop < 2 => okU = reinstallTargets(extensions, storage)
      /\ \A t \in reinstallTargets(extensions, storage) : t[2] \notin Fallible => t \in okU
      /\ updateCommand(okU, stop)
      /\ UNCHANGED <<codecVars, skillVars>>

\* ------------------------------------------------------------ environment
\* The stored manifest of an installed extension is deleted or made unreadable.
DamageManifest ==
  \E name \in ExtNames :
    /\ findIndex(extensions, name) > 0
    /\ storage[name] # <<>>
    /\ storage' = [storage EXCEPT ![name] = <<>>]
    /\ last' = Quiet("damage", name, "", "ok")
    /\ UNCHANGED <<extensions, files>>
    /\ UNCHANGED <<codecVars, skillVars>>

\* ------------------------------------------------------------------- specs
\* ----------------------------------------------------------- CLI startup
\* loadExtensionCommands, then program.parse().

\* What loading one command module does: import and register succeed, the
\* module exports no register function, or import or register throws: an
\* Error, or a value with no properties (undefined, null).
Outcomes == {"ok", "no-register", "throws-error", "throws-nullish"}

Modules ==
  {<<m.name, m.commands[i]>> : <<m, i>> \in
     {mi \in Sources \X (1..Cardinality(CommandNames)) : mi[2] <= Len(mi[1].commands)}}

NotStarted ==
  [started |-> FALSE, config |-> "not-read", list |-> "not-read", modules |-> <<>>,
   registered |-> {}, warnings |-> {}, parsed |-> FALSE]

\* Every directory of the storage is loaded, registered or not.
loadAllExtensions_everyDirectory(sto, registeredNames) ==
  (IF sto["A"] = <<>> THEN <<>> ELSE <<[dir |-> "A", manifest |-> sto["A"][1]]>>)
    \o (IF sto["B"] = <<>> THEN <<>> ELSE <<[dir |-> "B", manifest |-> sto["B"][1]]>>)

\* loadAllExtensions(projectDir, registeredNames): the manifests that load, of
\* the registered names, in their order.
loadAllExtensions(sto, registeredNames) ==
  LET RECURSIVE from(_)
      from(i) ==
        IF i > Len(registeredNames) THEN <<>>
        ELSE (IF sto[registeredNames[i]] = <<>> THEN <<>>
              ELSE <<[dir |-> registeredNames[i], manifest |-> sto[registeredNames[i]][1]]>>)
             \o from(i + 1)
  IN from(1)

\* The command modules of the loaded extensions in the order of the two
\* loops, each with what loading it does.
modulesOf(loaded, outcome) ==
  LET RECURSIVE from(_)
      from(i) ==
        IF i > Len(loaded) THEN <<>>
        ELSE [k \in 1..Len(loaded[i].manifest.commands) |->
                <<loaded[i].dir, loaded[i].manifest.commands[k],
                  outcome[<<loaded[i].dir, loaded[i].manifest.commands[k]>>]>>]
             \o from(i + 1)
  IN from(1)

\* (err as Error).message in a catch block: reading the property of undefined
\* or null throws a TypeError out of the handler.
handlerThrows(thrown) == thrown = "throws-nullish"

\* The two loops from module i on: a module that throws goes to the inner
\* catch, and a handler that throws leaves the loops for the outer catch.
loadModules(modules, i, registered, warnings) ==
  LET RECURSIVE from(_, _, _)
      from(k, reg, warn) ==
        IF k > Len(modules) THEN [registered |-> reg, warnings |-> warn, thrown |-> "none"]
        ELSE IF modules[k][3] = "ok"
             THEN from(k + 1, reg \cup {<<modules[k][1], modules[k][2]>>}, warn)
        ELSE IF modules[k][3] = "no-register" THEN from(k + 1, reg, warn)
        ELSE IF handlerThrows(modules[k][3])
             THEN [registered |-> reg, warnings |-> warn, thrown |-> "throws-error"]
        ELSE from(k + 1, reg, warn \cup {<<"command", modules[k][1], modules[k][2]>>})
  IN from(i, registered, warnings)

\* loadExtensionCommands and the parse after it. config and list are what
\* loadConfig and loadAllExtensions do: "ok" or "throws-error".
loadExtensionCommands(config, list, outcome, exts, sto) ==
  LET registeredNames == [i \in 1..Len(exts) |-> exts[i].name]
      modules == modulesOf(loadAllExtensions(sto, registeredNames), outcome)
      loaded == loadModules(modules, 1, {}, {})
      thrown == IF config # "ok" THEN config
                ELSE IF exts = <<>> THEN "none"
                ELSE IF list # "ok" THEN list
                ELSE loaded.thrown
      ran == config = "ok" /\ exts # <<>> /\ list = "ok"
  IN [started |-> TRUE,
      config |-> config,
      list |-> IF config = "ok" /\ exts # <<>> THEN list ELSE "not-read",
      modules |-> IF ran THEN modules ELSE <<>>,
      registered |-> IF ran THEN loaded.registered ELSE {},
      warnings |-> (IF ran THEN loaded.warnings ELSE {})
                     \cup (IF thrown # "none" /\ ~handlerThrows(thrown)
                           THEN {<<"extension commands", "", "">>} ELSE {}),
      parsed |-> ~handlerThrows(thrown)]

\* The command modules that the startup is going to load.
listed(exts, sto) ==
  LET loaded == loadAllExtensions(sto, [i \in 1..Len(exts) |-> exts[i].name])
  IN {<<loaded[ik[1]].dir, loaded[ik[1]].manifest.commands[ik[2]]>> : ik \in
        {ik \in (1..Len(loaded)) \X (1..Cardinality(CommandNames)) :
           ik[2] <= Len(loaded[ik[1]].manifest.commands)}}

\* The CLI starts on the project as it is: a new process, after the command
\* before it. What is not reached fails nothing.
Startup ==
  \E config \in {"ok", "throws-error"}, list \in {"ok", "throws-error"} :
    \E outcome \in [listed(extensions, storage) -> Outcomes] :
      /\ ~cli.started
      /\ config # "ok" => list = "ok"
      /\ (config # "ok" \/ list # "ok") => \A m \in DOMAIN outcome : outcome[m] = "ok"
      /\ cli' = loadExtensionCommands(config, list, outcome, extensions, storage)
      /\ UNCHANGED <<extensions, storage, files, last, ncmd>>
      /\ UNCHANGED <<codecVars, skillVars>>

\* ------------------------------------------------------- remote skills
\* skill add / skill remove / skill update on the agents' remoteSkills lists.
MaxSkillCommands == 3    \* skill commands on one project
MaxCommit == 3           \* commits of the repository's branch

Repo == "r1"             \* github:owner/repo, one repository on its branch
Ref == "main"
Commits == 1..MaxCommit

DetectedSkill(name, relativePath) == [name |-> name, relativePath |-> relativePath]

\* detectSkills(repoDir) on the archive of a commit: the skills of the
\* collection, in directory order, by the name of their front matter.
detectSkills(commit) ==
  IF commit = 1
  THEN <<DetectedSkill("x", "skills/x"), DetectedSkill("b1", "skills/b1"),
         DetectedSkill("w", "skills/w")>>
  ELSE IF commit = 2
  THEN <<DetectedSkill("x", "skills/x"), DetectedSkill("y", "skills/y"),
         DetectedSkill("x", "skills/x2"), DetectedSkill("w", "skills/w")>>
  ELSE <<DetectedSkill("x", "skills/x"), DetectedSkill("y", "skills/y")>>

RemoteNames == {"x", "y", "w", "b1"}

\* parsed.skillPath of the source given to skill add: none, a name, a relative
\* path, or one the repository does not hold.
SkillPathArgs == {"", "x", "skills/y", "skills/b1", "skills/q"}

RemoteSkill(name, relativePath, version) ==
  [name |-> name, source |-> Repo, path |-> relativePath, ref |-> Ref, version |-> version]

NoDir == <<>>            \* no directory of that name under the agent's skillsDir

\* What a skill command reports:
\*   outcome    "ok", or the way the command ended early,
\*   installed  <<agent, name>>: installRemoteSkill ran for the name and returned,
\*   made       the temporary directories downloadAndExtract returned,
\*   latest     the commit resolveCommitHash gave,
\*   before     remoteSkills as the command loaded it,
\*   saved      whether the command called saveConfig,
\*   dropped    the names skill add took out of the selection as built-in,
\*   name       the name given to skill update, "" when none was given.
SkillReport(op, outcome, installedNow, made, latest, before, saved) ==
  [op |-> op, outcome |-> outcome, installed |-> installedNow, made |-> made,
   latest |-> latest, before |-> before, saved |-> saved, dropped |-> {}, name |-> ""]

Naming(report, name) == [report EXCEPT !.name = name]

Dropping(report, selected, kept) ==
  [report EXCEPT !.dropped = {selected[i].name : i \in 1..Len(selected)}
                               \ {kept[i].name : i \in 1..Len(kept)}]

IdleSkills ==
  /\ remoteSkills = [a \in AgentIds |-> <<>>]
  /\ skillDirs = [a \in AgentIds |-> [n \in RemoteNames |-> NoDir]]
  /\ temps = {}
  /\ head = 1
  /\ slast = SkillReport("init", "ok", {}, {}, 0, [a \in AgentIds |-> <<>>], FALSE)

\* downloadAndExtract: tmpBase is made; when the download or the extraction
\* fails it is removed again and the call throws, else the repository directory
\* inside it is returned.  made: <<repoDir>>, or <<>> when the call threw.
downloadAndExtract(dirs, tmpBase, ok) ==
  IF ok THEN [temps |-> dirs \cup {tmpBase}, made |-> <<tmpBase>>]
  ELSE [temps |-> (dirs \cup {tmpBase}) \ {tmpBase}, made |-> <<>>]

\* cleanupTemp(repoDir): the temp base of the repository directory is removed.
cleanupTemp(dirs, repoDir) == dirs \ {repoDir}

\* The directory name the clock gives the next download.
newTmp == ncmd + 1

\* resolveCommitHash(source): the latest commit of the branch.
resolveCommitHash == head

\* allDetected.find(s => s.relativePath === skillPath || s.name === skillPath),
\* as an index; 0 when nothing is found.
findSkill(allDetected, skillPath) ==
  LET is == {i \in 1..Len(allDetected) :
               allDetected[i].relativePath = skillPath \/ allDetected[i].name = skillPath}
  IN IF is = {} THEN 0 ELSE Min(is)

\* skills.filter(s => keep.includes(s.name))
RECURSIVE filterByName(_, _)
filterByName(skills, keep) ==
  IF skills = <<>> THEN <<>>
  ELSE (IF skills[1].name \in keep THEN <<skills[1]>> ELSE <<>>)
         \o filterByName(Tail(skills), keep)

\* "Check for conflicts with built-in skills": the loop runs over the array
\* selectedSkills named when it began, and re-assigns the variable.
RECURSIVE dropBuiltIn(_, _, _)
dropBuiltIn(iterated, i, selectedSkills) ==
  IF i > Len(iterated) THEN selectedSkills
  ELSE dropBuiltIn(iterated, i + 1,
                   IF iterated[i].name \in BaseSkills
                   THEN filterByName(selectedSkills, RemoteNames \ {iterated[i].name})
                   ELSE selectedSkills)

\* The selection kept as it is.
withoutBuiltIn_keepsAll(selectedSkills) == selectedSkills

withoutBuiltIn(selectedSkills) == dropBuiltIn(selectedSkills, 1, selectedSkills)

\* Steps 3 and 4 of skill add; found is FALSE when the path given is not in
\* the repository.
selectSkills(allDetected, skillPath, chosen) ==
  IF skillPath # ""
  THEN (IF findSkill(allDetected, skillPath) = 0 THEN [found |-> FALSE, skills |-> <<>>]
        ELSE [found |-> TRUE, skills |-> <<allDetected[findSkill(allDetected, skillPath)]>>])
  ELSE IF Len(allDetected) = 1 THEN [found |-> TRUE, skills |-> allDetected]
  ELSE [found |-> TRUE, skills |-> filterByName(allDetected, chosen)]

\* agent.remoteSkills.findIndex(r => r.name === name), 1-based; 0 for -1.
findRemote(list, name) ==
  LET is == {i \in 1..Len(list) : list[i].name = name}
  IN IF is = {} THEN 0 ELSE Min(is)

\* What installRemoteSkill leaves under the agent's skillsDir.
InstalledDir(commit, relativePath) == <<[commit |-> commit, path |-> relativePath]>>

\* The entry always pushed, whether the name is recorded or not.
recordEntry_alwaysPush(list, existingIdx, remoteEntry) == Append(list, remoteEntry)

\* if (existingIdx >= 0) remoteSkills[existingIdx] = remoteEntry; else push.
recordEntry(list, existingIdx, remoteEntry) ==
  IF existingIdx > 0 THEN [list EXCEPT ![existingIdx] = remoteEntry]
  ELSE Append(list, remoteEntry)

\* The inner loop of step 7 for one agent; installRemoteSkill throws for the
\* names in failing and leaves the directory as it was.
RECURSIVE installSelected(_, _, _, _, _)
installSelected(list, dirs, skills, version, failing) ==
  IF skills = <<>> THEN [list |-> list, dirs |-> dirs, installed |-> {}, threw |-> FALSE]
  ELSE LET skill == skills[1]
           existingIdx == findRemote(list, skill.name)
       IN IF skill.name \in failing
          THEN [list |-> list, dirs |-> dirs, installed |-> {}, threw |-> TRUE]
          ELSE LET rest == installSelected(
                             recordEntry(list, existingIdx,
                                         RemoteSkill(skill.name, skill.relativePath, version)),
                             [dirs EXCEPT ![skill.name] =
                                InstalledDir(version, skill.relativePath)],
                             Tail(skills), version, failing)
               IN [list |-> rest.list, dirs |-> rest.dirs,
                   installed |-> {skill.name} \cup rest.installed, threw |-> rest.threw]

\* Step 7: every agent in turn, until an install throws.
RECURSIVE installOnAgents(_, _, _, _, _, _)
installOnAgents(agents, lists, dirsAll, skills, version, failing) ==
  IF agents = <<>>
  THEN [lists |-> lists, dirs |-> dirsAll, installed |-> {}, threw |-> FALSE]
  ELSE LET a == agents[1]
           one == installSelected(lists[a], dirsAll[a], skills, version,
                                  {n \in RemoteNames : <<a, n>> \in failing})
           lists1 == [lists EXCEPT ![a] = one.list]
           dirs1 == [dirsAll EXCEPT ![a] = one.dirs]
           mine == {<<a, n>> : n \in one.installed}
       IN IF one.threw
          THEN [lists |-> lists1, dirs |-> dirs1, installed |-> mine, threw |-> TRUE]
          ELSE LET rest == installOnAgents(Tail(agents), lists1, dirs1, skills, version,
                                           failing)
               IN [lists |-> rest.lists, dirs |-> rest.dirs,
                   installed |-> mine \cup rest.installed, threw |-> rest.threw]

\* skillAddCommand from the download on.  The finally block runs cleanupTemp on
\* every way out of the try block but process.exit(1), which ends the process
\* where it is called.
skillAddCommand(skillPath, chosen, downloads, failing) ==
  LET dl == downloadAndExtract(temps, newTmp, downloads)
      selected == selectSkills(detectSkills(head), skillPath, chosen)
      selectedSkills == withoutBuiltIn(selected.skills)
      version == resolveCommitHash
      done == installOnAgents(Agents, remoteSkills, skillDirs, selectedSkills, version,
                              failing)
  IN IF dl.made = <<>>
     THEN /\ temps' = dl.temps
          /\ slast' = SkillReport("add", "download-failed", {}, {}, 0, remoteSkills, FALSE)
          /\ UNCHANGED <<remoteSkills, skillDirs>>
     ELSE IF ~selected.found
     THEN /\ temps' = dl.temps
          /\ slast' = SkillReport("add", "not-found", {}, Range(dl.made), 0, remoteSkills,
                                  FALSE)
          /\ UNCHANGED <<remoteSkills, skillDirs>>
     ELSE IF selectedSkills = <<>>
     THEN /\ temps' = cleanupTemp(dl.temps, dl.made[1])
          /\ slast' = Dropping(SkillReport("add", "nothing", {}, Range(dl.made), 0,
                                           remoteSkills, FALSE),
                               selected.skills, selectedSkills)
          /\ UNCHANGED <<remoteSkills, skillDirs>>
     ELSE /\ temps' = cleanupTemp(dl.temps, dl.made[1])
          /\ skillDirs' = done.dirs
          /\ remoteSkills' = IF done.threw THEN remoteSkills ELSE done.lists
          /\ slast' = Dropping(SkillReport("add", IF done.threw THEN "error" ELSE "ok",
                                           done.installed, Range(dl.made), version,
                                           remoteSkills, ~done.threw),
                               selected.skills, selectedSkills)

\* The project's skill commands leave everything else as it is.
SkillCommand(A) ==
  /\ ncmd < MaxSkillCommands
  /\ ncmd' = ncmd + 1
  /\ A
  /\ UNCHANGED <<extensions, storage, files, last, cli, head>>
  /\ UNCHANGED codecVars

SkillAdd ==
  \E skillPath \in SkillPathArgs, downloads \in BOOLEAN :
    \E chosen \in SUBSET RemoteNames, failing \in SUBSET (Fallible \X RemoteNames) :
      \* the answers and failures of steps that did not run are not a choice
      /\ chosen # {}
      /\ chosen \subseteq {detectSkills(head)[i].name : i \in 1..Len(detectSkills(head))}
           \/ chosen = RemoteNames
      /\ (skillPath # "" \/ ~downloads) => chosen = RemoteNames
      /\ (skillPath = "" /\ downloads) => chosen # RemoteNames
      /\ ~downloads => (skillPath = "" /\ failing = {})
      /\ Cardinality(failing) <= 1
      /\ skillAddCommand(skillPath, chosen, downloads, failing)

\* ------------------------------------------------------------ skill remove
\* Every name recorded for some agent.
allRemoteNames(lists) ==
  UNION {{lists[a][i].name : i \in 1..Len(lists[a])} : a \in AgentIds}

\* idx = findIndex(name); if (idx >= 0) { removeDirectory; splice(idx, 1) }
removeRemote(list, name) ==
  IF findRemote(list, name) = 0 THEN list
  ELSE SubSeq(list, 1, findRemote(list, name) - 1)
         \o SubSeq(list, findRemote(list, name) + 1, Len(list))

RECURSIVE removeRemotes(_, _)
removeRemotes(list, skillsToRemove) ==
  IF skillsToRemove = {} THEN list
  ELSE LET n == CHOOSE n \in skillsToRemove : TRUE
       IN removeRemotes(removeRemote(list, n), skillsToRemove \ {n})

\* skillRemoveCommand(name): name "" is the interactive selection chosen.
skillRemoveCommand(name, chosen) ==
  LET skillsToRemove == IF name # "" THEN {name} ELSE chosen
      recorded(a) == {remoteSkills[a][i].name : i \in 1..Len(remoteSkills[a])}
  IN IF allRemoteNames(remoteSkills) = {}
     THEN /\ slast' = SkillReport("remove", "none", {}, {}, 0, remoteSkills, FALSE)
          /\ UNCHANGED <<remoteSkills, skillDirs, temps>>
     ELSE IF name # "" /\ name \notin allRemoteNames(remoteSkills)
     THEN /\ slast' = SkillReport("remove", "not-found", {}, {}, 0, remoteSkills, FALSE)
          /\ UNCHANGED <<remoteSkills, skillDirs, temps>>
     ELSE /\ remoteSkills' = [a \in AgentIds |-> removeRemotes(remoteSkills[a], skillsToRemove)]
          /\ skillDirs' = [a \in AgentIds |-> [n \in RemoteNames |->
                             IF n \in skillsToRemove \cap recorded(a) THEN NoDir
                             ELSE skillDirs[a][n]]]
          /\ slast' = SkillReport("remove", "ok", {}, {}, 0, remoteSkills, TRUE)
          /\ UNCHANGED temps

SkillRemove ==
  \E name \in RemoteNames \cup {""} :
    \E chosen \in SUBSET allRemoteNames(remoteSkills) :
      /\ name # "" => chosen = {}
      /\ (name = "" /\ allRemoteNames(remoteSkills) # {}) => chosen # {}
      /\ skillRemoveCommand(name, chosen)

\* ------------------------------------------------------------ skill update
\* group.skills of the one key `${source}#${ref}`: the entries of every agent in
\* turn, those of the given name when a name is given.
RECURSIVE groupSkills(_, _, _, _)
groupSkills(lists, agents, ri, name) ==
  IF agents = <<>> THEN <<>>
  ELSE IF ri > Len(lists[agents[1]]) THEN groupSkills(lists, Tail(agents), 1, name)
  ELSE (IF name # "" /\ lists[agents[1]][ri].name # name THEN <<>>
        ELSE <<[agent |-> agents[1], remoteIdx |-> ri,
                skillPath |-> lists[agents[1]][ri].path,
                skillName |-> lists[agents[1]][ri].name]>>)
         \o groupSkills(lists, agents, ri + 1, name)

\* currentVersion: rs.version of the entry that created the group.
currentVersion(lists, skills) == lists[skills[1].agent][skills[1].remoteIdx].version

\* allDetected.find(d => d.name === s.skillName || d.relativePath === s.skillPath)
findDetected(allDetected, s) ==
  LET is == {i \in 1..Len(allDetected) :
               allDetected[i].name = s.skillName \/ allDetected[i].relativePath = s.skillPath}
  IN IF is = {} THEN 0 ELSE Min(is)

\* The loop over group.skills inside the try block.
RECURSIVE reinstallGroup(_, _, _, _, _, _)
reinstallGroup(skills, lists, dirsAll, allDetected, latestVersion, failing) ==
  IF skills = <<>>
  THEN [lists |-> lists, dirs |-> dirsAll, installed |-> {}, threw |-> FALSE]
  ELSE LET s == skills[1]
           d == findDetected(allDetected, s)
       IN IF d = 0
          THEN reinstallGroup(Tail(skills), lists, dirsAll, allDetected, latestVersion,
                              failing)
          ELSE IF <<s.agent, s.skillName>> \in failing
          THEN [lists |-> lists, dirs |-> dirsAll, installed |-> {}, threw |-> TRUE]
          ELSE LET rest == reinstallGroup(
                             Tail(skills),
                             [lists EXCEPT ![s.agent][s.remoteIdx].version = latestVersion],
                             [dirsAll EXCEPT ![s.agent][s.skillName] =
                                InstalledDir(latestVersion, allDetected[d].relativePath)],
                             allDetected, latestVersion, failing)
               IN [lists |-> rest.lists, dirs |-> rest.dirs,
                   installed |-> {<<s.agent, s.skillName>>} \cup rest.installed,
                   threw |-> rest.threw]

\* latestVersion === group.currentVersion
upToDate(lists, skills, latestVersion) == latestVersion = currentVersion(lists, skills)

skillUpdateCommand(name, downloads, failing) ==
  LET skills == groupSkills(remoteSkills, Agents, 1, name)
      latestVersion == resolveCommitHash
      dl == downloadAndExtract(temps, newTmp, downloads)
      done == reinstallGroup(skills, remoteSkills, skillDirs, detectSkills(head),
                             latestVersion, failing)
  IN IF skills = <<>>
     THEN /\ slast' = Naming(SkillReport("update", "none", {}, {}, 0, remoteSkills, FALSE), name)
          /\ UNCHANGED <<remoteSkills, skillDirs, temps>>
     ELSE IF upToDate(remoteSkills, skills, latestVersion)
     THEN /\ slast' = Naming(SkillReport("update", "up-to-date", {}, {}, latestVersion,
                                  remoteSkills, TRUE), name)
          /\ UNCHANGED <<remoteSkills, skillDirs, temps>>
     ELSE IF dl.made = <<>>
     THEN /\ temps' = dl.temps
          /\ slast' = Naming(SkillReport("update", "download-failed", {}, {}, latestVersion,
                                  remoteSkills, TRUE), name)
          /\ UNCHANGED <<remoteSkills, skillDirs>>
     ELSE /\ temps' = cleanupTemp(dl.temps, dl.made[1])
          /\ skillDirs' = done.dirs
          /\ remoteSkills' = IF done.threw THEN remoteSkills ELSE done.lists
          /\ slast' = Naming(SkillReport("update", IF done.threw THEN "error" ELSE "ok",
                                  done.installed, Range(dl.made), latestVersion,
                                  remoteSkills, ~done.threw), name)

SkillUpdate ==
  \E name \in RemoteNames \cup {""}, downloads \in BOOLEAN :
    \E failing \in SUBSET (Fallible \X RemoteNames) :
      /\ Cardinality(failing) <= 1
      /\ ~downloads => failing = {}
      /\ skillUpdateCommand(name, downloads, failing)

\* A commit is pushed to the repository's branch.
Push ==
  /\ head < MaxCommit
  /\ head' = head + 1
  /\ UNCHANGED <<remoteSkills, skillDirs, temps, slast>>
  /\ UNCHANGED <<lifecycleVars, codecVars>>

InitFiles ==
  [a \in AgentIds |-> [sk \in SkillNames |->
     IF sk \in BaseSkills THEN BaseContent(sk) ELSE NoFile]]

InitLifecycle ==
  /\ extensions = <<>>
  /\ storage = [e \in ExtNames |-> <<>>]
  /\ files = InitFiles
  /\ last = Quiet("init", "", "", "ok")
  /\ ncmd = 0
  /\ cli = NotStarted

IdleCodec ==
  /\ cOrig = <<>> /\ cDoc = <<>> /\ cPrev = <<>> /\ cB = <<>>
  /\ cPos = "append" /\ cOps = <<>>

Init == InitLifecycle /\ IdleCodec /\ IdleSkills

\* One more command, or one more event, on the project: the process that
\* started before it has ended.
Command(A) == ncmd < MaxCommands /\ ncmd' = ncmd + 1 /\ cli' = NotStarted /\ A

Next ==
  \/ Command(Install)
  \/ Command(InstallUnresolved)
  \/ Command(Remove)
  \/ Command(Update)
  \/ Command(DamageManifest)

Spec == Init /\ [][Next]_vars

\* The commands, and then the startup of one more process on the project they
\* left. (A command after that startup leads where it leads without it: it
\* does not read what the startup loaded.)
NextStartup ==
  \/ ~cli.started /\ Command(Install)
  \/ ~cli.started /\ Command(InstallUnresolved)
  \/ ~cli.started /\ Command(Remove)
  \/ ~cli.started /\ Command(Update)
  \/ ~cli.started /\ Command(DamageManifest)
  \/ Startup

SpecStartup == Init /\ [][NextStartup]_vars

\* --------------------------------------- update after a changed manifest
\* Two versions of one extension, the second of which gives up one of the two
\* base skills the first replaces, and the update of the project.
DroppingSources ==
  { Manifest("A", "v3", <<"p1", "p2">>, << <<"p1", "b1">>, <<"p2", "b2">> >>, <<>>),
    Manifest("A", "v4", <<"p2">>, << <<"p2", "b2">> >>, <<>>) }

InstallDropping == InstallOf(DroppingSources)

NextDropping == Command(InstallDropping) \/ Command(Update)

SpecDropping == Init /\ [][NextDropping]_vars

\* -------------------------------------------------- the injection pass
\* The injections of one manifest applied to agents that have, or lack, the
\* target files, from a manifest that names content files it does not ship, and
\* with writes that throw.
InjectingSources ==
  { Manifest("A", "v5", <<>>, <<>>,
             <<Inj("b1", "append", "f1"), Inj("b2", "append", "f0"),
               Inj("p1", "prepend", "f1"), Inj("b2", "prepend", "f2")>>),
    Manifest("B", "v5", <<>>, <<>>,
             <<Inj("b2", "append", "f1"), Inj("b1", "prepend", "f0")>>) }

\* Every agent holds some of the base skills, and no other skill.
InitInjecting ==
  /\ extensions = <<>>
  /\ storage = [e \in ExtNames |-> <<>>]
  /\ files \in {[a \in AgentIds |-> [sk \in SkillNames |->
                   IF sk \in has[a] THEN BaseContent(sk) ELSE NoFile]] :
                has \in [AgentIds -> SUBSET BaseSkills]}
  /\ last = Quiet("init", "", "", "ok")
  /\ ncmd = 0
  /\ cli = NotStarted

\* "Apply injections for all agents": the loop over config.agents of
\* extensionAddCommand, and the catch block an exception in it ends in.
RECURSIVE injectAgents(_, _, _, _)
injectAgents(fsAll, agents, manifest, failing) ==
  IF agents = <<>> THEN [fs |-> fsAll, total |-> 0, returned |-> {}, threw |-> FALSE]
  ELSE LET a == agents[1]
           one == applyInjectionsOrThrow(fsAll[a], manifest.name, manifest.version,
                                         manifest.injections,
                                         {sk \in SkillNames : <<a, sk>> \in failing})
       IN IF one.threw
          THEN [fs |-> [fsAll EXCEPT ![a] = one.fs], total |-> 0, returned |-> {},
                threw |-> TRUE]
          ELSE LET rest == injectAgents([fsAll EXCEPT ![a] = one.fs], Tail(agents),
                                        manifest, failing)
               IN [fs |-> rest.fs, total |-> one.count + rest.total,
                   returned |-> {a} \cup rest.returned, threw |-> rest.threw]

\* applySingleExtensionInjections for one agent.
InjectOnAgent ==
  \E manifest \in InjectingSources, a \in AgentIds :
    \E applied \in {applySingleExtensionInjections(files[a], manifest)} :
      /\ files' = [files EXCEPT ![a] = applied.fs]
      /\ last' = Injecting(Quiet("inject", manifest.name, manifest.version, "ok"),
                           applied.count, {a}, {})
      /\ UNCHANGED <<extensions, storage>>
      /\ UNCHANGED <<codecVars, skillVars>>

\* The writes that throw during one pass: none, or the write of one target
\* file of one agent.
FailingWrites == {{}} \cup {{w} : w \in AgentIds \X BaseSkills}

\* The last step of an install, with the writes in failing throwing.
InjectEveryAgent ==
  \E manifest \in InjectingSources, failing \in FailingWrites :
    \E pass \in {injectAgents(files, Agents, manifest, failing)} :
      /\ files' = pass.fs
      /\ last' = Injecting(Quiet("inject-all", manifest.name, manifest.version,
                                 IF pass.threw THEN "error" ELSE "ok"),
                           pass.total, pass.returned, failing)
      /\ UNCHANGED <<extensions, storage>>
      /\ UNCHANGED <<codecVars, skillVars>>

NextInjecting == Command(InjectOnAgent) \/ Command(InjectEveryAgent)

InitOfInjecting == InitInjecting /\ IdleCodec /\ IdleSkills

SpecInjecting == InitOfInjecting /\ [][NextInjecting]_vars

\* ------------------------------------------- the remote skill commands
NextSkills ==
  \/ SkillCommand(SkillAdd)
  \/ SkillCommand(SkillRemove)
  \/ SkillCommand(SkillUpdate)
  \/ Push

SpecSkills == Init /\ [][NextSkills]_vars

\* ------------------------------------------------------- the codec alone
\* applyInjection and stripInjection on enumerated texts, for the triple
\* (CodecExt, CodecSkill, cPos).
CodecExt == "A"
CodecSkill == "b1"

BodyTokens ==
  {NL, SP, DASH, TX("x"),
   startMarker(CodecExt, CodecSkill, "append"), endMarker(CodecExt, CodecSkill, "append")}

Bodies == UNION {[1..n -> BodyTokens] : n \in 0..MaxBody}

\* A text: with or without a front-matter section, then the body.
Texts == {fm \o body : fm \in {<<>>, frontMatter("t")}, body \in Bodies}

InjectedContents == {<<TX("y")>>, <<TX("y"), NL, NL>>}

\* content holds a block the strip of the triple matches.
hasBlock(content, extensionName, skillName, position) ==
  \E i \in 1..Len(content) :
     matchAt(content, i, {startMarker(extensionName, skillName, position)},
             {endMarker(extensionName, skillName, position)}) # 0

InitCodec ==
  /\ cOrig \in Texts
  /\ cB \in InjectedContents
  /\ cPos \in Positions
  /\ cDoc = cOrig
  /\ cPrev = cOrig
  /\ cOps = <<>>

CodecApply ==
  /\ Len(cOps) < MaxOps
  /\ cPrev' = cDoc
  /\ cDoc' = applyInjection(cDoc, cB, cPos, CodecExt, CodecSkill)
  /\ cOps' = Append(cOps, "apply")
  /\ UNCHANGED <<cOrig, cB, cPos>>
  /\ UNCHANGED <<lifecycleVars, skillVars>>

CodecStrip ==
  /\ Len(cOps) < MaxOps
  /\ cPrev' = cDoc
  /\ cDoc' = stripInjection(cDoc, CodecExt, CodecSkill, cPos)
  /\ cOps' = Append(cOps, "strip")
  /\ UNCHANGED <<cOrig, cB, cPos>>
  /\ UNCHANGED <<lifecycleVars, skillVars>>

NextCodec == CodecApply \/ CodecStrip

\* The codec is exercised on a project nothing was installed on.
InitOfCodec == InitLifecycle /\ InitCodec /\ IdleSkills

SpecCodec == InitOfCodec /\ [][NextCodec]_vars

\* ------------------------------------------- two extensions in one file
\* The blocks of two extensions whose names are a prefix of one another, in one
\* skill file, with injected content that may hold a sentinel line.
MaxSharedOps == 3    \* operations applied to the one file

SharedNames == {"A", "AB"}

\* The characters of a name, of a skill id, of a position: what the regular
\* expressions are matched against.
Spelling(name) == IF name = "AB" THEN <<"A", "B">> ELSE <<name>>

\* The text of a sentinel between "<!-- aif-ext:" and ":start -->" / ":end -->".
tagText(tok) == Spelling(tok[2]) \o <<":">> \o Spelling(tok[3]) \o <<":">> \o Spelling(tok[4])

isPrefix(p, t) == Len(p) <= Len(t) /\ SubSeq(t, 1, Len(p)) = p

\* `aif-ext:${escaped}:[^:]+:[^:]+:start -->` (kind "start", or "end") on one
\* sentinel: the name, a colon, and two fields without a colon.
extensionMarkerRegex(tok, extensionName, kind) ==
  /\ tok[1] = kind
  /\ LET t == tagText(tok)
         n == Spelling(extensionName) \o <<":">>
     IN /\ isPrefix(n, t)
        /\ LET rest == SubSeq(t, Len(n) + 1, Len(t))
           IN /\ Cardinality({i \in 1..Len(rest) : rest[i] = ":"}) = 1
              /\ rest # <<>> /\ rest[1] # ":" /\ rest[Len(rest)] # ":"

SharedMarkers ==
  {startMarker(e, CodecSkill, pos) : e \in SharedNames, pos \in Positions}
    \cup {endMarker(e, CodecSkill, pos) : e \in SharedNames, pos \in Positions}

\* stripInjectionsByExtensionName on one file, by the text of the sentinels:
\* the includes() test, then the replace.
stripFileByName(content, extensionName) ==
  IF \E i \in 1..Len(content) :
        /\ content[i] \in SharedMarkers
        /\ isPrefix(Spelling(extensionName) \o <<":">>, tagText(content[i]))
  THEN replaceAll(content, 1,
                  {t \in SharedMarkers : extensionMarkerRegex(t, extensionName, "start")},
                  {t \in SharedMarkers : extensionMarkerRegex(t, extensionName, "end")})
  ELSE content

SharedTexts == {<<TX("x")>>, <<TX("x"), NL>>, frontMatter("t") \o <<TX("x"), NL>>}

\* Injected content: a plain line, or lines one of which is a sentinel.
SharedContents ==
  {<<TX("y")>>} \cup {<<TX("y"), NL, m, NL, TX("z")>> : m \in SharedMarkers}

InitShared ==
  /\ cOrig \in SharedTexts
  /\ cDoc = cOrig /\ cPrev = cOrig
  /\ cB = <<>> /\ cPos = "append" /\ cOps = <<>>

\* extension e injects content at pos.
SharedApply ==
  \E e \in SharedNames, pos \in Positions, content \in SharedContents :
    /\ Len(cOps) < MaxSharedOps
    /\ cPrev' = cDoc
    /\ cDoc' = applyInjection(cDoc, content, pos, e, CodecSkill)
    /\ cB' = content
    /\ cPos' = pos
    /\ cOps' = Append(cOps, <<"apply", e, pos>>)
    /\ UNCHANGED cOrig
    /\ UNCHANGED <<lifecycleVars, skillVars>>

\* The block of one triple is stripped.
SharedStrip ==
  \E e \in SharedNames, pos \in Positions :
    /\ Len(cOps) < MaxSharedOps
    /\ cPrev' = cDoc
    /\ cDoc' = stripInjection(cDoc, e, CodecSkill, pos)
    /\ cPos' = pos
    /\ cOps' = Append(cOps, <<"strip", e, pos>>)
    /\ UNCHANGED <<cOrig, cB>>
    /\ UNCHANGED <<lifecycleVars, skillVars>>

\* Every block of one extension is stripped, by its name.
SharedStripByName ==
  \E e \in SharedNames :
    /\ Len(cOps) < MaxSharedOps
    /\ cPrev' = cDoc
    /\ cDoc' = stripFileByName(cDoc, e)
    /\ cOps' = Append(cOps, <<"stripByName", e, "any">>)
    /\ UNCHANGED <<cOrig, cB, cPos>>
    /\ UNCHANGED <<lifecycleVars, skillVars>>

NextShared == SharedApply \/ SharedStrip \/ SharedStripByName

InitOfShared == InitLifecycle /\ InitShared /\ IdleSkills

SpecShared == InitOfShared /\ [][NextShared]_vars

\* ------------------------------------------------------------------ claims

\* C6: applying the same injection twice gives the text one application gives:
\* applyInjection(applyInjection(F, B, T), B, T) = applyInjection(F, B, T), for
\* every text F, with or without front matter, and both positions.
C6_IdempotentApply ==
  (Len(cOps) >= 2 /\ cOps[Len(cOps)] = "apply" /\ cOps[Len(cOps) - 1] = "apply")
    => cDoc = cPrev

C6_Witness == cOps = <<"apply", "apply">> /\ cDoc = cPrev /\ cPos = "prepend"

\* C7: stripping the triple after applying it to a text F that holds no block of
\* the triple gives back F exactly, and stripInjection changes no text that holds
\* no matching block.
C7_ExactStrip ==
  ~hasBlock(cOrig, CodecExt, CodecSkill, cPos) =>
    /\ cOps = <<"apply", "strip">> => cDoc = cOrig
    /\ cOps = <<"strip">> => cDoc = cOrig

C7_Witness ==
  /\ ~hasBlock(cOrig, CodecExt, CodecSkill, cPos)
  /\ cOps = <<"apply", "strip">> /\ cDoc = cOrig /\ cOrig # <<>>

\* The ids a record owns.
owned(record) == Range(record.replacedSkills)

\* The step just taken was a command of the kind op that ended as outcome.
Ended(op, outcome) ==
  ncmd' = ncmd + 1 /\ last'.op = op /\ last'.outcome = outcome

\* C1: after any sequence of installs, re-installs, updates and removes, no base
\* id is in the replacedSkills of two records with different extension names.
C1_OwnershipExclusive ==
  \A i, j \in 1..Len(extensions) :
     extensions[i].name # extensions[j].name =>
       owned(extensions[i]) \cap owned(extensions[j]) = {}

\* Two extensions are installed and each owns a base id.
C1_Witness ==
  \E i, j \in 1..Len(extensions) :
     /\ extensions[i].name # extensions[j].name
     /\ owned(extensions[i]) # {}
     /\ owned(extensions[j]) # {}

\* C2: an install whose manifest maps a path to a base id that a record of
\* another name owns ends with the conflict error, and leaves the store, the
\* extension storage and every agent's files as they were.
C2_ConflictRejected ==
  [][\A m \in Sources :
       ( /\ ncmd' = ncmd + 1
         /\ last'.op = "install" /\ last'.name = m.name /\ last'.version = m.version
         /\ \E i \in 1..Len(m.replaces), j \in 1..Len(extensions) :
               /\ extensions[j].name # m.name
               /\ m.replaces[i][2] \in owned(extensions[j]) )
       => (last'.outcome = "conflict" /\ UNCHANGED <<extensions, storage, files>>)]_vars

\* An install has just been refused for a conflict.
C2_Witness == last.op = "install" /\ last.outcome = "conflict"

\* ----------------------------------------------- what a skill file holds
\* The file is the package's base skill b, whatever was injected into it.
holdsBase(content, b) ==
  /\ \E i \in 1..Len(content) : content[i] = <<"base", b>>
  /\ \A i \in 1..Len(content) : content[i][1] # "ext"

\* The file is a replacement that extension e shipped, whatever was injected.
holdsReplacement(content, e) ==
  /\ \E i \in 1..Len(content) : content[i][1] = "ext" /\ content[i][2] = e
  /\ \A i \in 1..Len(content) : content[i][1] # "base"

\* The stored manifest of extension e maps a path to b.
declares(sto, e, b) ==
  sto[e] # <<>> /\ b \in Range(replaceValues(sto[e][1].replaces))

\* C3: when the replacement under b installed on some agents but not on all,
\* then after the install every agent it had installed on holds the base skill b
\* again, and the record the install saved does not list b.
C3_PartialRollback ==
  last.op = "install" =>
    \A t \in last.partial :
       /\ t[1] \in BaseSkills => holdsBase(files[t[2]][t[1]], t[1])
       /\ last.outcome = "ok" =>
            t[1] \notin owned(extensions[findIndex(extensions, last.name)])

C3_Witness ==
  /\ last.op = "install" /\ last.outcome = "ok" /\ last.partial # {}
  /\ \A t \in last.partial : holdsBase(files[t[2]][t[1]], t[1])

\* C4: an install that ends in an error after the conflict check leaves no
\* owned id worse off: an id a saved record lists, and that held the
\* extension's replacement on every agent before, still does afterwards; and no
\* id is listed by two records.
C4_AbortNoWorse ==
  [][Ended("install", "error") =>
       /\ \A i \in 1..Len(extensions') :
            \A b \in owned(extensions'[i]) :
               (/\ i <= Len(extensions)
                /\ extensions[i] = extensions'[i]
                /\ \A a \in AgentIds : holdsReplacement(files[a][b], extensions[i].name))
                 => \A a \in AgentIds : holdsReplacement(files'[a][b], extensions'[i].name)
       /\ \A i, j \in 1..Len(extensions') :
            extensions'[i].name # extensions'[j].name
              => owned(extensions'[i]) \cap owned(extensions'[j]) = {}]_vars

C4_Witness ==
  /\ last.op = "install" /\ last.outcome = "error"
  /\ \E i \in 1..Len(extensions) :
       /\ extensions[i].name = last.name
       /\ owned(extensions[i]) # {}

\* C5: after a remove of extension X has completed, no file of any agent holds
\* a start or end sentinel of X, whether X's stored manifest loaded or not.
C5_NoOrphanMarkers ==
  (last.op = "remove" /\ last.outcome = "ok") =>
     \A a \in AgentIds, sk \in SkillNames : ~includesName(files[a][sk], last.name)

C5_Witness ==
  /\ last.op = "remove" /\ last.outcome = "ok"
  /\ last.notes = {"markers", "no-manifest"}
  /\ \A a \in AgentIds, sk \in SkillNames : ~includesName(files[a][sk], last.name)

\* The paths the manifest maps to b.
pathsTo(manifest, b) ==
  {manifest.replaces[i][1] : i \in {j \in 1..Len(manifest.replaces) : manifest.replaces[j][2] = b}}

\* C8: after an install of an extension whose manifest maps the path p, and no
\* other path, to b, with every install succeeding on every agent, each agent's
\* file under b is the extension's skill at p and not the base skill; after a
\* remove of an extension that owned b, with no other record owning b and b a
\* base skill of the package, each agent's file under b is the base skill again.
C8_ReplaceThenRestore ==
  /\ (last.op = "install" /\ last.outcome = "ok") =>
        \A b \in last.full : \A p \in Paths :
           pathsTo(storage[last.name][1], b) = {p} =>
             \A a \in AgentIds :
                /\ holdsReplacement(files[a][b], last.name)
                /\ \E i \in 1..Len(files[a][b]) :
                     files[a][b][i] = <<"ext", last.name, last.version, p>>
  /\ (last.op = "remove" /\ last.outcome = "ok") =>
        \A b \in (last.released \cap BaseSkills) \ allReplaced(extensions) :
           \A a \in AgentIds : files[a][b] = BaseContent(b)

C8_Witness ==
  /\ last.op = "remove" /\ last.outcome = "ok" /\ last.released # {}
  /\ \A b \in last.released : \A a \in AgentIds : files[a][b] = BaseContent(b)

\* C9: when a record owns b and no manifest with a replaces section loads for
\* it, an update that runs to its end leaves the base skill under b on every
\* agent and saves the record without b.
C9_UpdateRestores ==
  [][Ended("update", "ok") =>
       \A i \in 1..Len(extensions) :
          \A b \in owned(extensions[i]) \cap BaseSkills :
             (storage[extensions[i].name] = <<>>
                \/ storage[extensions[i].name][1].replaces = <<>>)
               => /\ \A a \in AgentIds : holdsBase(files'[a][b], b)
                  /\ Len(extensions') = Len(extensions)
                  /\ extensions'[i].name = extensions[i].name
                  /\ b \notin owned(extensions'[i])]_vars

C9_Witness ==
  /\ last.op = "update" /\ last.outcome = "ok" /\ last.released # {}
  /\ \E e \in ExtNames : findIndex(extensions, e) > 0 /\ storage[e] = <<>>
  /\ \A b \in last.released : \A a \in AgentIds : holdsBase(files[a][b], b)

\* C10: an update never puts the base skill under an id that a record owns and
\* the record's stored manifest declares, and such an id ends a completed update
\* holding the extension's replacement on every agent.
C10_UpdateKeepsReplacement ==
  [][(ncmd' = ncmd + 1 /\ last'.op = "update") =>
       \A i \in 1..Len(extensions) :
          \A b \in owned(extensions[i]) :
             declares(storage, extensions[i].name, b) =>
               /\ \A a \in AgentIds :
                    holdsReplacement(files[a][b], extensions[i].name)
                      => ~holdsBase(files'[a][b], b)
               /\ last'.outcome = "ok" =>
                    \A a \in AgentIds :
                       holdsReplacement(files'[a][b], extensions[i].name)]_vars

C10_Witness ==
  /\ last.op = "update" /\ last.outcome = "ok"
  /\ \E i \in 1..Len(extensions) : \E b \in owned(extensions[i]) :
       /\ declares(storage, extensions[i].name, b)
       /\ \A a \in AgentIds : holdsReplacement(files[a][b], extensions[i].name)

\* How often a token occurs in a text.
count(content, tok) == Cardinality({i \in 1..Len(content) : content[i] = tok})

\* The text holds exactly one block of the triple, with the content the
\* extension's stored copy of the file gives it.
injectedOnce(content, e, sk, pos) ==
  /\ count(content, startMarker(e, sk, pos)) = 1
  /\ count(content, endMarker(e, sk, pos)) = 1
  /\ \E i \in 1..Len(content) : \E j \in (i + 1)..Len(content) :
        /\ content[i] = startMarker(e, sk, pos)
        /\ content[j] = endMarker(e, sk, pos)
        /\ \E k \in (i + 1)..(j - 1) : content[k][1] = "inj" /\ content[k][2] = e

\* C11: after an update that ran to its end, for every record whose manifest
\* loads and every injection it declares, every agent whose target file exists
\* holds the injected block in it exactly once: the injections are applied last,
\* on the refreshed, re-installed and restored files.
C11_UpdateReappliesInjections ==
  (last.op = "update" /\ last.outcome = "ok") =>
     \A i \in 1..Len(extensions) :
        storage[extensions[i].name] # <<>> =>
          LET m == storage[extensions[i].name][1]
          IN \A k \in 1..Len(m.injections) : \A a \in AgentIds :
                files[a][m.injections[k].target] # NoFile =>
                  injectedOnce(files[a][m.injections[k].target], m.name,
                               m.injections[k].target, m.injections[k].position)

C11_Witness ==
  /\ last.op = "update" /\ last.outcome = "ok"
  /\ \E i \in 1..Len(extensions) :
       /\ storage[extensions[i].name] # <<>>
       /\ LET m == storage[extensions[i].name][1]
          IN \E k \in 1..Len(m.injections) : \A a \in AgentIds :
                /\ holdsBase(files[a][m.injections[k].target], m.injections[k].target)
                /\ injectedOnce(files[a][m.injections[k].target], m.name,
                                m.injections[k].target, m.injections[k].position)

\* C12: after any sequence of installs, re-installs, updates and removes, no
\* agent file holds more than one block of a triple (extension, target,
\* position): neither sentinel of the triple occurs twice.
C12_OneBlockPerTriple ==
  \A a \in AgentIds, sk \in SkillNames, e \in ExtNames, t \in SkillNames, pos \in Positions :
     /\ count(files[a][sk], startMarker(e, t, pos)) <= 1
     /\ count(files[a][sk], endMarker(e, t, pos)) <= 1

\* An extension was installed over its own record, or its injections applied
\* again by an update, and its block is in a file.
C12_Witness ==
  /\ ncmd >= 2
  /\ last.op \in {"install", "update"} /\ last.outcome = "ok"
  /\ \E i \in 1..Len(extensions) : \E a \in AgentIds, sk \in SkillNames, pos \in Positions :
       /\ last.op = "install" => (last.name = extensions[i].name /\ last.released # {})
       /\ count(files[a][sk], startMarker(extensions[i].name, sk, pos)) = 1

ownedByOthers(exts, name) ==
  UNION {owned(exts[i]) : i \in {j \in 1..Len(exts) : exts[j].name # name}}

\* C14: a command that releases ids restores exactly the released ids that are
\* base skills of the package and that no remaining record owns; remove,
\* re-install and update restore the same set.
C14_RestorableSet ==
  /\ (last.op \in {"install", "remove"} /\ last.steps >= 4) =>
        last.restored = (last.released \cap BaseSkills) \ ownedByOthers(extensions, last.name)
  /\ (last.op = "update" /\ last.outcome = "ok") =>
        last.restored = (last.released \cap BaseSkills) \ allReplaced(extensions)

\* An update gave up ids of a record and restored base skills.
C14_Witness ==
  /\ last.op = "update" /\ last.outcome = "ok"
  /\ last.released # {} /\ last.restored \cap BaseSkills # {}

\* The blocks of the triple in a text: from a start sentinel to the first end
\* sentinel after it.
blocksOf(content, e, sk, pos) ==
  {SubSeq(content, i, j) : <<i, j>> \in
     {ij \in (1..Len(content)) \X (1..Len(content)) :
        /\ ij[1] < ij[2]
        /\ content[ij[1]] = startMarker(e, sk, pos)
        /\ content[ij[2]] = endMarker(e, sk, pos)
        /\ \A k \in (ij[1] + 1)..(ij[2] - 1) : content[k] # endMarker(e, sk, pos)}}

\* The last operation stripped extension e, by triple or by name.
stripped(e) ==
  /\ cOps # <<>>
  /\ cOps[Len(cOps)][1] \in {"strip", "stripByName"}
  /\ cOps[Len(cOps)][2] = e

\* C15: a strip of extension e's blocks, by triple or by name, leaves every
\* block of every other extension in the file as it was, whatever the names
\* (one may be a prefix of the other) and whatever was injected.
C15_OtherBlocksKept ==
  \A e \in SharedNames, o \in SharedNames, pos \in Positions :
     (stripped(e) /\ o # e) =>
        blocksOf(cDoc, o, CodecSkill, pos) = blocksOf(cPrev, o, CodecSkill, pos)

\* The same for injected content no line of which is a sentinel.
C15_Witness ==
  /\ Len(cOps) = 3
  /\ cOps[1] = <<"apply", "AB", "append">> /\ cOps[2] = <<"apply", "A", "append">>
  /\ cOps[3] = <<"stripByName", "A", "any">>
  /\ blocksOf(cDoc, "AB", CodecSkill, "append") = blocksOf(cPrev, "AB", CodecSkill, "append")
  /\ blocksOf(cDoc, "AB", CodecSkill, "append") # {}
  /\ blocksOf(cDoc, "A", CodecSkill, "append") = {}

\* C16: applying content B with a triple and stripping the triple removes the
\* whole block, whatever B holds: no sentinel of the triple and no line of B is
\* left in the file.
C16_WholeBlockStripped ==
  (Len(cOps) = 2 /\ cOps[1][1] = "apply" /\ cOps[2] = <<"strip", cOps[1][2], cOps[1][3]>>) =>
     \A i \in 1..Len(cDoc) :
        /\ cDoc[i] \notin {startMarker(cOps[1][2], CodecSkill, cOps[1][3]),
                           endMarker(cOps[1][2], CodecSkill, cOps[1][3])}
        /\ cDoc[i] # NL => \A k \in 1..Len(cB) : cB[k] # cDoc[i]

\* Content with a sentinel line of another triple was applied and stripped whole.
C16_Witness ==
  /\ Len(cOps) = 2 /\ cOps[1][1] = "apply" /\ cOps[2] = <<"strip", cOps[1][2], cOps[1][3]>>
  /\ \E k \in 1..Len(cB) : cB[k] \in SharedMarkers
  /\ \A i \in 1..Len(cDoc) : cDoc[i] \in {NL, DASH, TX("x"), TX("t")}

\* C17: removing a name that has no record ends with "not installed" and
\* leaves the record store, the extension storage and the agents' files as
\* they were.
C17_RemoveUnknownChangesNothing ==
  [][(last'.op = "remove" /\ findIndex(extensions, last'.name) = 0)
       => /\ last'.outcome = "not-installed"
          /\ UNCHANGED <<extensions, storage, files>>]_vars

\* Such a remove happened, for a name whose files are in the storage.
C17_Witness ==
  /\ last.op = "remove" /\ last.outcome = "not-installed"
  /\ findIndex(extensions, last.name) = 0
  /\ storage[last.name] # <<>>

\* C18: an install whose source does not resolve is aborted and leaves the
\* record store, the extension storage and the agents' files as they were.
C18_UnresolvedChangesNothing ==
  [][(last'.op = "install" /\ last'.outcome = "unresolved")
       => UNCHANGED <<extensions, storage, files>>]_vars

\* Such an install happened on a project that has a record and stored files.
C18_Witness ==
  /\ last.op = "install" /\ last.outcome = "unresolved"
  /\ findIndex(extensions, last.name) > 0
  /\ storage[last.name] # <<>>

\* C19: at startup a command module that fails to load or to register keeps
\* no other command module from being loaded and registered, and the CLI
\* reaches argument parsing, also when the configuration or the list of
\* extensions fails to load.
C19_BrokenModuleIsolated ==
  cli.started =>
    /\ cli.parsed
    /\ \A i \in 1..Len(cli.modules) :
         cli.modules[i][3] = "ok" => <<cli.modules[i][1], cli.modules[i][2]>> \in cli.registered

\* A module threw an Error, a later one of the same extension was registered.
C19_Witness ==
  /\ cli.started /\ cli.parsed
  /\ \E i, j \in 1..Len(cli.modules) :
       /\ i < j
       /\ cli.modules[i][1] = cli.modules[j][1]
       /\ cli.modules[i][3] = "throws-error"
       /\ <<"command", cli.modules[i][1], cli.modules[i][2]>> \in cli.warnings
       /\ <<cli.modules[j][1], cli.modules[j][2]>> \in cli.registered

\* C20: a startup loads command modules of extensions with a record only: not
\* of a directory of the storage without a record, and not of an extension
\* whose remove has just succeeded.
C20_OnlyRecordedLoaded ==
  cli.started =>
    /\ \A i \in 1..Len(cli.modules) : findIndex(extensions, cli.modules[i][1]) > 0
    /\ \A m \in cli.registered : findIndex(extensions, m[1]) > 0
    /\ (last.op = "remove" /\ last.outcome = "ok") =>
          /\ \A i \in 1..Len(cli.modules) : cli.modules[i][1] # last.name
          /\ \A m \in cli.registered : m[1] # last.name

\* A startup registered a command while the storage held the command modules
\* of an extension without a record.
C20_Witness ==
  /\ cli.started /\ cli.registered # {}
  /\ \E e \in ExtNames :
       /\ findIndex(extensions, e) = 0
       /\ storage[e] # <<>>
       /\ storage[e][1].commands # <<>>

\* C21: the store holds at most one record of a name: an install of a name
\* without a record adds one record at the end, an install of a name with a
\* record writes the new record in its place, a remove deletes the record,
\* and the other records stay as they are.
C21_OneRecordPerName ==
  [][LET name == last'.name
         idx == findIndex(extensions, name)
     IN /\ \A i, j \in 1..Len(extensions') :
             extensions'[i].name = extensions'[j].name => i = j
        /\ (last'.op = "install" /\ last'.steps >= InstallSave /\ idx = 0) =>
             /\ Len(extensions') = Len(extensions) + 1
             /\ SubSeq(extensions', 1, Len(extensions)) = extensions
             /\ extensions'[Len(extensions')].name = name
             /\ extensions'[Len(extensions')].version = last'.version
        /\ (last'.op = "install" /\ last'.steps >= InstallSave /\ idx > 0) =>
             /\ Len(extensions') = Len(extensions)
             /\ \A i \in 1..Len(extensions) : i # idx => extensions'[i] = extensions[i]
             /\ extensions'[idx].name = name
             /\ extensions'[idx].version = last'.version
        /\ (last'.op = "remove" /\ last'.outcome = "ok") =>
             extensions' = without(extensions, idx)]_vars

\* A re-install of the first of two records that changed its version.
C21_Witness ==
  /\ last.op = "install" /\ last.outcome = "ok"
  /\ Len(extensions) = 2
  /\ extensions[1].name = last.name
  /\ extensions[1].version = "v2"

\* The custom skill at path p of the extension is the agent's file under p.
holdsCustom(content, e, p) ==
  \E i \in 1..Len(content) : content[i][1] = "ext" /\ content[i][2] = e /\ content[i][4] = p

C23_OwnedOnlyIfAllAgents ==
  (last.op = "install" /\ last.steps >= InstallSave) =>
     \A b \in owned(extensions[findIndex(extensions, last.name)]) :
        /\ \A a \in AgentIds : <<b, a>> \notin last.partial
        /\ \A a \in AgentIds : holdsReplacement(files[a][b], last.name)

\* An install wrote a record that owns an id, with an install that failed on
\* an agent for another id of the manifest.
C23_Witness ==
  /\ last.op = "install" /\ last.steps >= InstallSave
  /\ owned(extensions[findIndex(extensions, last.name)]) # {}
  /\ last.partial # {}
  /\ \A b \in owned(extensions[findIndex(extensions, last.name)]) :
        \A a \in AgentIds : holdsReplacement(files[a][b], last.name)

\* The ids of the manifest whose replacement was rolled back by the last install.
rolledBack == {t[1] : t \in last.partial}

\* C24: the rollback of a partly installed replacement leaves the other
\* replacements of the manifest alone: one that installed on every agent is
\* the file under its id on every agent and is in the record, and the custom
\* skills are installed after it.
C24_RollbackLeavesOthers ==
  (last.op = "install" /\ last.steps >= InstallSave /\ rolledBack # {}) =>
     /\ \A b \in last.full \ rolledBack :
           /\ b \in owned(extensions[findIndex(extensions, last.name)])
           /\ \A a \in AgentIds : holdsReplacement(files[a][b], last.name)
     /\ \A a \in AgentIds \ Fallible :
           \A p \in Range(nonReplacementSkills(storage[last.name][1])) :
              holdsCustom(files[a][p], last.name, p)

\* One replacement was rolled back, another of the manifest is kept on every
\* agent, and a custom skill was installed after the rollback.
C24_Witness ==
  /\ last.op = "install" /\ last.steps >= InstallSave
  /\ rolledBack # {}
  /\ last.full \ rolledBack # {}
  /\ nonReplacementSkills(storage[last.name][1]) # <<>>
  /\ \A b \in last.full \ rolledBack :
        \A a \in AgentIds : holdsReplacement(files[a][b], last.name)

\* C25: on a re-install the sentinels of the previous version are stripped on
\* every agent and its replacements are removed before the files of the new
\* version are copied to the storage: whenever a re-install that has not yet
\* installed anything has copied the files, no agent file holds a sentinel of
\* the extension or a replacement of the previous record.
C25_CleanupBeforeCopy ==
  [][(/\ ncmd' = ncmd + 1 /\ last'.op = "install"
      /\ findIndex(extensions, last'.name) > 0
      /\ last'.steps >= 1 /\ last'.steps < 6)
       => /\ storage'[last'.name] # <<>>
          /\ storage'[last'.name][1].version = last'.version
          /\ \A a \in AgentIds, sk \in SkillNames :
                ~includesName(files'[a][sk], last'.name)
          /\ \A a \in AgentIds :
                \A b \in owned(extensions[findIndex(extensions, last'.name)]) :
                   ~holdsReplacement(files'[a][b], last'.name)]_vars

\* A re-install copied the new files and had removed the replacements of the
\* previous record when it ended.
C25_Witness ==
  /\ last.op = "install" /\ last.steps = 4
  /\ last.released # {}
  /\ storage[last.name] # <<>> /\ storage[last.name][1].version = last.version
  /\ \A a \in AgentIds, sk \in SkillNames : ~includesName(files[a][sk], last.name)

\* The skill names the manifest installs: the basename of a custom skill, the
\* base id of a replacement.
installedNames(manifest) ==
  {overrideName(manifest.replaces, manifest.skills[i]) : i \in 1..Len(manifest.skills)}

\* C26: a re-install cleans up by the manifest that was in the storage before
\* the new files were copied over it: when it has ended, no agent holds a custom
\* skill that this previous manifest declared and the new manifest does not.
C26_OldCustomSkillsRemoved ==
  (last.op = "install" /\ last.outcome = "ok") =>
     \A p \in last.cleaned \ installedNames(storage[last.name][1]) :
        \A a \in AgentIds : ~holdsCustom(files[a][p], last.name, p)

\* A re-install to a manifest without a custom skill of the previous manifest
\* ended, and the skill is on no agent.
C26_Witness ==
  /\ last.op = "install" /\ last.outcome = "ok"
  /\ last.cleaned \ installedNames(storage[last.name][1]) # {}
  /\ \A p \in last.cleaned : \A a \in AgentIds : files[a][p] = NoFile

\* The agent's file under b is the replacement of version v of extension e.
holdsVersion(content, e, v) ==
  /\ \E i \in 1..Len(content) :
        content[i][1] = "ext" /\ content[i][2] = e /\ content[i][3] = v
  /\ \A i \in 1..Len(content) : content[i][1] # "base"

\* C27: after a re-install that ran to its end, an id the previous record
\* owned and the new manifest does not map is not in the new record and, when
\* it is a base skill of the package, is the base skill on every agent; an id
\* the new manifest still maps, its installs having succeeded on every agent,
\* is in the record and is the new version's replacement on every agent.
C27_ReinstallReleasesAndKeeps ==
  (last.op = "install" /\ last.outcome = "ok") =>
     \A b \in last.released :
        IF b \in Range(replaceValues(storage[last.name][1].replaces))
        THEN b \in last.full =>
               /\ b \in owned(extensions[findIndex(extensions, last.name)])
               /\ \A a \in AgentIds : holdsVersion(files[a][b], last.name, last.version)
        ELSE /\ b \notin owned(extensions[findIndex(extensions, last.name)])
             /\ b \in BaseSkills => \A a \in AgentIds : holdsBase(files[a][b], b)

\* A re-install gave up a base skill the previous record owned.
C27_Witness ==
  /\ last.op = "install" /\ last.outcome = "ok"
  /\ \E b \in last.released \cap BaseSkills :
        /\ b \notin Range(replaceValues(storage[last.name][1].replaces))
        /\ \A a \in AgentIds : holdsBase(files[a][b], b)

\* C28: a remove deletes the record and saves the store as its last step: a
\* remove that ended earlier has left the store as it was, and when the record
\* is deleted the sentinels are stripped, the replacements and the custom
\* skills of the extension are removed and its storage directory is gone.
C28_RecordDeletedLast ==
  [][(ncmd' = ncmd + 1 /\ last'.op = "remove" /\ findIndex(extensions, last'.name) > 0) =>
       LET name == last'.name
           index == findIndex(extensions, name)
       IN /\ last'.steps < RemoveSteps =>
               extensions' = extensions /\ last'.outcome = "error"
          /\ extensions' # extensions =>
               /\ last'.steps = RemoveSteps
               /\ extensions' = without(extensions, index)
               /\ storage'[name] = <<>>
               /\ \A a \in AgentIds :
                    /\ \A b \in owned(extensions[index]) :
                          ~holdsReplacement(files'[a][b], name)
                    /\ storage[name] # <<>> =>
                          /\ \A p \in Range(nonReplacementSkills(storage[name][1])) :
                                files'[a][p] = NoFile
                          /\ \A i \in 1..Len(storage[name][1].injections) :
                                LET inj == storage[name][1].injections[i]
                                IN files'[a][inj.target] # NoFile =>
                                     count(files'[a][inj.target],
                                           startMarker(name, inj.target, inj.position)) = 0
                    /\ storage[name] = <<>> =>
                          \A sk \in SkillNames : ~includesName(files'[a][sk], name)]_vars

\* A remove ended after the storage directory was deleted and before the
\* store was saved: the record is still there.
C28_Witness ==
  /\ last.op = "remove" /\ last.outcome = "error" /\ last.steps = 5
  /\ storage[last.name] = <<>>
  /\ findIndex(extensions, last.name) > 0

\* The store, the storage and the agents' files that extensionRemoveCommand
\* leaves when it is made to stop after stop steps.
afterRemove(exts, sto, fsAll, name, stop) ==
  LET index == findIndex(exts, name)
  IN [extensions |-> IF stop >= 6 THEN without(exts, index) ELSE exts,
      storage |-> IF stop >= 5 THEN [sto EXCEPT ![name] = <<>>] ELSE sto,
      files |-> extensionRemoveFiles(fsAll, name, sto[name], exts[index],
                                     without(exts, index), stop)]

\* A remove of name that stopped early, then a remove of name that did not.
removedAgain(exts, sto, fsAll, name, stop) ==
  LET part == afterRemove(exts, sto, fsAll, name, stop)
  IN afterRemove(part.extensions, part.storage, part.files, name, RemoveSteps)

\* C29: a remove that ended before the record was deleted, followed by a
\* remove of the same extension that ran to its end, leaves the store, the
\* storage and the agents' files as one remove that ran to its end leaves them.
C29_RemoveRerun ==
  \A i \in 1..Len(extensions) :
     \A stop \in RemoveStops \ {RemoveSteps} :
        removedAgain(extensions, storage, files, extensions[i].name, stop)
          = afterRemove(extensions, storage, files, extensions[i].name, RemoveSteps)

\* A remove of a recorded extension ended after its storage directory was
\* deleted, and the remove after it gives what one remove would have given.
C29_Witness ==
  /\ last.op = "remove" /\ last.outcome = "error" /\ last.steps = 5
  /\ findIndex(extensions, last.name) > 0
  /\ last.released # {}
  /\ afterRemove(extensions, storage, files, last.name, RemoveSteps).extensions
       = without(extensions, findIndex(extensions, last.name))

\* C30: when the stored manifest of a record loads and does not map a path to
\* an id the record owns, an update takes the id out of the record and, no
\* other record owning it, leaves the base skill under it on every agent; the
\* ids the manifest maps stay in the record and are installed again from the
\* storage.
C30_UpdateDropsUndeclared ==
  [][(ncmd' = ncmd + 1 /\ last'.op = "update" /\ last'.outcome = "ok") =>
       \A i \in 1..Len(extensions) :
          LET ext == extensions[i]
          IN (storage[ext.name] # <<>> /\ storage[ext.name][1].replaces # <<>>) =>
               \A b \in owned(ext) :
                  IF declares(storage, ext.name, b)
                  THEN /\ b \in owned(extensions'[i])
                       /\ \A a \in AgentIds \ Fallible :
                             holdsVersion(files'[a][b], ext.name, storage[ext.name][1].version)
                  ELSE /\ b \notin owned(extensions'[i])
                       /\ (b \in BaseSkills /\ b \notin allReplaced(extensions')) =>
                             \A a \in AgentIds : holdsBase(files'[a][b], b)]_vars

\* An update took one id out of a record, restored the base skill, and kept
\* another id of the record, installed from the stored version.
C30_Witness ==
  /\ last.op = "update" /\ last.outcome = "ok"
  /\ \E b \in last.released \cap BaseSkills : \A a \in AgentIds : holdsBase(files[a][b], b)
  /\ \E i \in 1..Len(extensions) :
        /\ storage[extensions[i].name] # <<>>
        /\ owned(extensions[i]) # {}
        /\ \A b \in owned(extensions[i]) : \A a \in AgentIds \ Fallible :
              holdsVersion(files[a][b], extensions[i].name,
                           storage[extensions[i].name][1].version)

\* The manifest a report names, and the directives of it that find their target
\* file and their content file.
manifestOf(report) ==
  CHOOSE m \in InjectingSources : m.name = report.name /\ m.version = report.version

applicable(fs, manifest) ==
  {i \in 1..Len(manifest.injections) :
     /\ fs[manifest.injections[i].target] # NoFile
     /\ InjectionFile(manifest.name, manifest.version, manifest.injections[i].file) # <<>>}

\* C31: applying one extension's injections to one agent ends without an error,
\* returns the number of directives whose target file and content file exist,
\* leaves each of those targets with the directive's block, creates no file for
\* a missing target, and leaves every file no applied directive targets, and
\* every other agent, as it was.
C31_SkipsMissing ==
  [][last'.op = "inject" =>
       \A a \in last'.agents :
         LET m == manifestOf(last')
             app == applicable(files[a], m)
             written == {m.injections[i].target : i \in app}
         IN /\ last'.outcome = "ok"
            /\ last'.count = Cardinality(app)
            /\ \A i \in app :
                 injectedOnce(files'[a][m.injections[i].target], m.name,
                              m.injections[i].target, m.injections[i].position)
            /\ \A sk \in SkillNames \ written : files'[a][sk] = files[a][sk]
            /\ \A o \in AgentIds \ {a} : files'[o] = files[o]]_vars

\* A pass over four directives of which one finds no target file, one no content
\* file, and two are applied.
C31_Witness ==
  /\ last.op = "inject" /\ last.name = "A" /\ last.count = 2
  /\ \E a \in last.agents :
       /\ files[a]["p1"] = NoFile
       /\ injectedOnce(files[a]["b1"], "A", "b1", "append")
       /\ injectedOnce(files[a]["b2"], "A", "b2", "prepend")
       /\ count(files[a]["b2"], startMarker("A", "b2", "append")) = 0

\* C32: an install's injection pass in which the write of one target file
\* throws does not end as a failed operation, and every other directive whose
\* target file and content file exist is applied, on every agent.
C32_WriteErrorSkipsOne ==
  last.op = "inject-all" =>
    /\ last.outcome = "ok"
    /\ \A a \in AgentIds :
         \A i \in 1..Len(manifestOf(last).injections) :
           LET d == manifestOf(last).injections[i]
           IN (/\ files[a][d.target] # NoFile
               /\ InjectionFile(last.name, last.version, d.file) # <<>>
               /\ <<a, d.target>> \notin last.failing)
                => injectedOnce(files[a][d.target], last.name, d.target, d.position)

\* The write of one file threw on the first agent: the pass ended in the catch
\* block, and the second agent, whose writes do not fail, holds no block.
C32_Witness ==
  /\ last.op = "inject-all" /\ last.name = "B" /\ last.outcome = "error"
  /\ last.failing = {<<"a1", "b2">>}
  /\ files["a2"]["b2"] # NoFile
  /\ count(files["a2"]["b2"], startMarker("B", "b2", "append")) = 0

\* Version v of extension e ships the skill at path p as a custom skill: it is
\* in manifest.skills and not a key of manifest.replaces.
isCustom(e, v, p) ==
  \E m \in Sources : m.name = e /\ m.version = v /\ p \in Range(nonReplacementSkills(m))

\* The file is a custom skill that some version of extension e installed.
holdsCustomOf(content, e) ==
  \E i \in 1..Len(content) :
     content[i][1] = "ext" /\ content[i][2] = e /\ isCustom(e, content[i][3], content[i][4])

\* C33: after a remove that ran to its end, no agent holds a custom skill that
\* the removed extension installed, whether its stored manifest loaded or not.
C33_CustomSkillsRemoved ==
  (last.op = "remove" /\ last.outcome = "ok") =>
     \A a \in AgentIds : \A sk \in SkillNames : ~holdsCustomOf(files[a][sk], last.name)

\* A remove that found no stored manifest ran to its end, and an agent still
\* holds the custom skill of the removed extension.
C33_Witness ==
  /\ last.op = "remove" /\ last.outcome = "ok" /\ "no-manifest" \in last.notes
  /\ findIndex(extensions, last.name) = 0
  /\ \E a \in AgentIds : \E sk \in SkillNames : holdsCustomOf(files[a][sk], last.name)

\* The step of each command at which it calls saveConfig.
recordStep(op) ==
  IF op = "install" THEN InstallSave ELSE IF op = "remove" THEN RemoveSteps ELSE UpdateSteps

\* C34: an install, an update or a remove calls saveConfig once when it runs to
\* its end, and not at all when it ends before its record step; the saved
\* records change by that one write, and by nothing else in the command.
C34_StoreSavedOnce ==
  [][(ncmd' = ncmd + 1 /\ last'.op \in {"install", "remove", "update"}) =>
       /\ Len(last'.saves) <= 1
       /\ last'.outcome = "ok" => Len(last'.saves) = 1
       /\ last'.steps < recordStep(last'.op) => last'.saves = <<>>
       /\ last'.saves = <<>> => extensions' = extensions
       /\ last'.saves # <<>> => extensions' = last'.saves[1]]_vars

\* An update that ran to its end wrote the records once, changed by the loop
\* that re-installs the replacements.
C34_Witness ==
  /\ last.op = "update" /\ last.outcome = "ok"
  /\ last.saves = <<extensions>>
  /\ last.released # {}

\* C35: when an update has run to its end, every id in the replacedSkills of
\* every saved record is, on every agent, the replacement its extension
\* shipped, also when a re-install of the update failed on an agent.
C35_OwnedInstalledAfterUpdate ==
  (last.op = "update" /\ last.outcome = "ok") =>
     \A i \in 1..Len(extensions) : \A b \in owned(extensions[i]) :
        \A a \in AgentIds : holdsReplacement(files[a][b], extensions[i].name)

\* An update ran to its end and saved a record that owns an id which one agent
\* holds as the replacement and another agent does not.
C35_Witness ==
  /\ last.op = "update" /\ last.outcome = "ok" /\ last.saves = <<extensions>>
  /\ \E i \in 1..Len(extensions) : \E b \in owned(extensions[i]) :
       /\ declares(storage, extensions[i].name, b)
       /\ holdsReplacement(files["a1"][b], extensions[i].name)
       /\ files["a2"][b] = NoFile

\* The names recorded for an agent.
recordedNames(list) == {list[i].name : i \in 1..Len(list)}

\* C36: skill add installs no skill under a built-in name and records none for
\* any agent; when the selection holds nothing but built-in names the command
\* installs nothing, leaves the lists as they were and does not save.
C36_BuiltInNeverAdded ==
  [][(ncmd' = ncmd + 1 /\ slast'.op = "add") =>
       /\ \A a \in AgentIds :
            /\ recordedNames(remoteSkills'[a]) \cap BaseSkills
                 \subseteq recordedNames(remoteSkills[a])
            /\ \A n \in RemoteNames \cap BaseSkills :
                 /\ <<a, n>> \notin slast'.installed
                 /\ skillDirs'[a][n] = skillDirs[a][n]
       /\ slast'.outcome = "nothing" =>
            /\ slast'.installed = {} /\ ~slast'.saved
            /\ remoteSkills' = remoteSkills /\ skillDirs' = skillDirs]_vars

\* An add whose selection held a built-in name and another: the other is
\* installed and recorded on every agent, the built-in name nowhere.
C36_Witness ==
  /\ slast.op = "add" /\ slast.outcome = "ok" /\ slast.dropped = {"b1"}
  /\ \A a \in AgentIds :
       /\ "x" \in recordedNames(remoteSkills[a])
       /\ "b1" \notin recordedNames(remoteSkills[a])
       /\ skillDirs[a]["b1"] = NoDir

\* C37: after every skill command each agent's list holds a name at most once;
\* an add that saves keeps every entry it found at its index, under its name,
\* and appends only names the list did not hold, also when the selection holds
\* a name twice.
C37_OneEntryPerName ==
  [][ncmd' = ncmd + 1 =>
       \A a \in AgentIds :
         /\ \A i, j \in 1..Len(remoteSkills'[a]) :
              remoteSkills'[a][i].name = remoteSkills'[a][j].name => i = j
         /\ (slast'.op = "add" /\ slast'.saved) =>
              /\ Len(remoteSkills'[a]) >= Len(remoteSkills[a])
              /\ \A i \in 1..Len(remoteSkills[a]) :
                   remoteSkills'[a][i].name = remoteSkills[a][i].name]_vars

\* An add at the commit that holds the name x twice, on lists that recorded x
\* at the commit before: the one entry of x is the second of the two, in place.
C37_Witness ==
  /\ slast.op = "add" /\ slast.outcome = "ok" /\ slast.latest = 2
  /\ \A a \in AgentIds :
       /\ Len(slast.before[a]) = 1 /\ slast.before[a][1].name = "x"
       /\ slast.before[a][1].version = 1
       /\ Len(remoteSkills[a]) = 1
       /\ remoteSkills[a][1] = RemoteSkill("x", "skills/x2", 2)

\* The entry is in the repository at the commit: detected by name or by path.
foundAt(commit, entry) ==
  findDetected(detectSkills(commit), [skillName |-> entry.name, skillPath |-> entry.path]) # 0

\* C38: after a skill update that ran to its end, every selected entry whose
\* version was not the latest commit and which the repository holds at that
\* commit was re-installed and carries the latest commit as its version, and
\* every selected entry that was at the latest commit is as it was and was not
\* re-installed, whatever the versions of the other entries of its source.
C38_StaleEntriesUpdated ==
  [][(ncmd' = ncmd + 1 /\ slast'.op = "update" /\ slast'.outcome \in {"ok", "up-to-date"}) =>
       \A a \in AgentIds : \A i \in 1..Len(remoteSkills[a]) :
          (slast'.name = "" \/ remoteSkills[a][i].name = slast'.name) =>
             /\ (remoteSkills[a][i].version # head /\ foundAt(head, remoteSkills[a][i])) =>
                  /\ remoteSkills'[a][i].version = head
                  /\ <<a, remoteSkills[a][i].name>> \in slast'.installed
             /\ remoteSkills[a][i].version = head =>
                  /\ remoteSkills'[a][i] = remoteSkills[a][i]
                  /\ <<a, remoteSkills[a][i].name>> \notin slast'.installed]_vars

\* An update of every entry found the first entry of the source at the latest
\* commit and ended; an entry of the same source, in the repository at that
\* commit, still carries an older version.
C38_Witness ==
  /\ slast.op = "update" /\ slast.outcome = "up-to-date" /\ slast.name = ""
  /\ slast.latest = head
  /\ \E a \in AgentIds : \E i \in 1..Len(remoteSkills[a]) :
       remoteSkills[a][i].version # head /\ foundAt(head, remoteSkills[a][i])

\* C39: a skill add or a skill update leaves no temporary directory it made:
\* the one a successful downloadAndExtract returned is removed by cleanupTemp on
\* every way out of the command, and a failed downloadAndExtract removes its
\* own.
C39_TempRemoved ==
  [][(ncmd' = ncmd + 1 /\ slast'.op \in {"add", "update"}) =>
       /\ temps' \subseteq temps
       /\ slast'.made \cap temps' = {}]_vars

\* A skill add that was given a path the repository does not hold has ended,
\* and the directory its download made is still there.
C39_Witness ==
  /\ slast.op = "add" /\ slast.outcome = "not-found"
  /\ slast.made # {} /\ slast.made \subseteq temps

====
